---------------------------- MODULE Spec2Model ----------------------------
(***************************************************************************)
(* A model of quaero (qae): the search utility that merges file-name,      *)
(* file-content and git-log matches into one sorted report.                *)
(*                                                                         *)
(* Strings are sequences of Unicode code points.  Rust compares Strings    *)
(* byte-wise on their UTF-8 encoding, so ordering goes through Utf8.       *)
(* Display lines are records [fmt, args]: the format! literal and the      *)
(* values substituted into it.                                             *)
(***************************************************************************)
EXTENDS Integers, Sequences, FiniteSets, TLC

VARIABLES
    pc,               \* position of the control flow
    cli,              \* the parsed command line (struct Cli)
    world,            \* what the collaborators deliver: walker entries, git
    name_matches,     \* result of search_names
    content_matches,  \* result of search_content
    log_matches,      \* result of search_git_log
    blocks,           \* Vec<(String, Vec<String>)> handed to print_blocks
    stdout,           \* lines written to standard output, in order
    stderr,           \* diagnostics written to standard error, in order
    exit_code,        \* the process's exit status, once it has exited
    ret               \* value returned by the function or by run

vars == <<pc, cli, world, name_matches, content_matches, log_matches,
          blocks, stdout, stderr, exit_code, ret>>

-----------------------------------------------------------------------------
(* Bounds of the model *)

\* longest raw pattern drawn for the case-policy functions
MaxCasePatLen == 2
\* longest raw pattern drawn for prepare_regex_pattern
MaxPatLen == 2
\* longest text the prepared pattern is matched against
MaxTextLen == 3

-----------------------------------------------------------------------------
(* Characters and strings *)

\* the code points the model's strings are made of
Ch == [h |-> 104, H |-> 72, Eacute |-> 201, eacute |-> 233, dot |-> 46,
       star |-> 42, lparen |-> 40, backslash |-> 92, b |-> 98, slash |-> 47,
       dash |-> 45, sp |-> 32, del |-> 127, r |-> 114, t |-> 116, z |-> 122, f |-> 102,
       w |-> 119, bar |-> 124, lbracket |-> 91]

\* all strings over alphabet A of length at most n
StringsUpTo(A, n) == UNION {[1..k -> A] : k \in 0..n}

\* UTF-8 encoding of one code point (below U+0800)
Utf8Char(c) == IF c < 128 THEN <<c>> ELSE <<192 + (c \div 64), 128 + (c % 64)>>

RECURSIVE Utf8(_)
Utf8(s) == IF s = <<>> THEN <<>> ELSE Utf8Char(Head(s)) \o Utf8(Tail(s))

\* lexicographic order on byte sequences: a < b
RECURSIVE BytesLess(_, _)
BytesLess(a, b) ==
    IF b = <<>> THEN FALSE
    ELSE IF a = <<>> THEN TRUE
    ELSE IF Head(a) # Head(b) THEN Head(a) < Head(b)
    ELSE BytesLess(Tail(a), Tail(b))

\* String::cmp(a, b) = Less
StrLess(a, b) == BytesLess(Utf8(a), Utf8(b))

\* needle occurs in text as a contiguous substring
Contains(text, needle) ==
    \E i \in 1..(Len(text) + 1) :
        /\ i + Len(needle) - 1 <= Len(text)
        /\ \A k \in 1..Len(needle) : text[i + k - 1] = needle[k]

\* char::is_uppercase, for code points below U+0100
IsUppercase(c) == c \in (65..90) \cup (192..214) \cup (216..222)

\* simple case folding, for code points below U+0100
Fold(c) == IF IsUppercase(c) THEN c + 32 ELSE c

\* a word character of the regex engine (\w), for the model's code points
IsWordChar(c) ==
    c \in (48..57) \cup (65..90) \cup (97..122) \cup {95} \cup (192..214)
          \cup (216..246) \cup (248..255)

-----------------------------------------------------------------------------
(* The regex collaborator: regex::escape, compilation, matching *)

\* regex_syntax::is_meta_character
IsMeta(c) == c \in {92, 46, 43, 42, 63, 40, 41, 124, 91, 93, 123, 125, 94, 36,
                    35, 38, 45, 126}

\* regex::escape: a backslash before every metacharacter
RECURSIVE Escape(_)
Escape(s) ==
    IF s = <<>> THEN <<>>
    ELSE (IF IsMeta(Head(s)) THEN <<Ch.backslash, Head(s)>> ELSE <<Head(s)>>)
         \o Escape(Tail(s))

\* the index after the run of '*' that starts at i
RECURSIVE SkipStars(_, _)
SkipStars(p, i) ==
    IF i <= Len(p) /\ p[i] = Ch.star THEN SkipStars(p, i + 1) ELSE i

\* The parse of pattern p from index i on: a sequence of atoms, each a
\* literal, '.', or the assertion \b, possibly starred.  ok is FALSE for
\* what the regex crate rejects: a repetition with nothing before it, an
\* unclosed group, a trailing backslash, an unrecognised escape.
RECURSIVE ParseFrom(_, _)
ParseFrom(p, i) ==
    IF i > Len(p) THEN [ok |-> TRUE, atoms |-> <<>>]
    ELSE
      LET c == p[i]
          esc == c = Ch.backslash
          bad == \/ c = Ch.star
                 \/ c = Ch.lparen
                 \/ esc /\ i = Len(p)
                 \/ esc /\ i < Len(p) /\ ~IsMeta(p[i + 1]) /\ p[i + 1] # Ch.b
      IN IF bad THEN [ok |-> FALSE, atoms |-> <<>>]
         ELSE
           LET n == IF esc THEN i + 2 ELSE i + 1
               m == SkipStars(p, n)
               atom == [k |-> IF esc /\ p[i + 1] = Ch.b THEN "wordb"
                              ELSE IF ~esc /\ c = Ch.dot THEN "any"
                              ELSE "lit",
                        c |-> IF esc THEN p[i + 1] ELSE c,
                        star |-> m > n]
               rest == ParseFrom(p, m)
           IN [ok |-> rest.ok, atoms |-> <<atom>> \o rest.atoms]

\* The branches of pattern p: p split at every '|' that no backslash
\* escapes.  Alternation binds loosest, so each branch is a whole
\* concatenation.
RECURSIVE SplitAlt(_, _, _)
SplitAlt(p, i, cur) ==
    IF i > Len(p) THEN <<cur>>
    ELSE IF p[i] = Ch.bar THEN <<cur>> \o SplitAlt(p, i + 1, <<>>)
    ELSE IF p[i] = Ch.backslash /\ i < Len(p)
    THEN SplitAlt(p, i + 2, cur \o <<p[i], p[i + 1]>>)
    ELSE SplitAlt(p, i + 1, Append(cur, p[i]))

\* RegexBuilder::new(pattern).case_insensitive(ci).build()
Compile(pattern, ci) ==
    LET branches == SplitAlt(pattern, 1, <<>>)
        parsed == [k \in 1..Len(branches) |-> ParseFrom(branches[k], 1)]
    IN [ok |-> \A k \in 1..Len(branches) : parsed[k].ok,
        alts |-> [k \in 1..Len(branches) |-> parsed[k].atoms],
        case_insensitive |-> ci]

\* branch k of a compiled pattern
Branch(re, k) == [atoms |-> re.alts[k], case_insensitive |-> re.case_insensitive]

\* position pos of text lies between a word and a non-word character
IsBoundary(text, pos) ==
    LET before == pos > 1 /\ IsWordChar(text[pos - 1])
        after == pos <= Len(text) /\ IsWordChar(text[pos])
    IN before # after

\* atom a accepts the character c
CharOk(re, a, c) ==
    \/ a.k = "any"
    \/ a.k = "lit" /\ (IF re.case_insensitive THEN Fold(a.c) = Fold(c) ELSE a.c = c)

\* atoms i.. of branch re match a prefix of text[pos..]
RECURSIVE MatchAt(_, _, _, _)
MatchAt(re, i, text, pos) ==
    IF i > Len(re.atoms) THEN TRUE
    ELSE
      LET a == re.atoms[i]
      IN IF a.k = "wordb"
         THEN /\ (a.star \/ IsBoundary(text, pos))
              /\ MatchAt(re, i + 1, text, pos)
         ELSE \/ a.star /\ MatchAt(re, i + 1, text, pos)
              \/ /\ pos <= Len(text)
                 /\ CharOk(re, a, text[pos])
                 /\ MatchAt(re, IF a.star THEN i ELSE i + 1, text, pos + 1)

\* Regex::is_match: the pattern matches somewhere in text
IsMatch(re, text) ==
    \E k \in 1..Len(re.alts), s \in 1..(Len(text) + 1) :
        MatchAt(Branch(re, k), 1, text, s)

-----------------------------------------------------------------------------
(* cli.rs: the request *)

DefaultCli ==
    [pattern |-> <<Ch.h>>, names_only |-> FALSE, content_only |-> FALSE,
     ignore_case |-> FALSE, case_sensitive |-> FALSE, smart_case |-> FALSE,
     fixed_strings |-> FALSE, glob |-> <<>>, exclude |-> <<>>,
     word_regexp |-> FALSE, log |-> FALSE, no_log |-> FALSE,
     log_only |-> FALSE]

\* a mutant of is_case_insensitive: --ignore-case is tested first
IgnoreCaseWins(c) ==
    IF c.ignore_case THEN TRUE
    ELSE IF c.case_sensitive THEN FALSE
    ELSE IF c.smart_case THEN ~(\E i \in 1..Len(c.pattern) : IsUppercase(c.pattern[i]))
    ELSE FALSE

\* Cli::is_case_insensitive
is_case_insensitive(c) ==
    IF c.case_sensitive THEN FALSE
    ELSE IF c.ignore_case THEN TRUE
    ELSE IF c.smart_case THEN ~(\E i \in 1..Len(c.pattern) : IsUppercase(c.pattern[i]))
    ELSE FALSE

\* Cli::wants_log
wants_log(c) == ~c.no_log \/ c.log

\* a mutant of prepare_regex_pattern: -F is ignored
PrepareWithoutEscape(c) ==
    IF c.word_regexp
    THEN <<Ch.backslash, Ch.b>> \o c.pattern \o <<Ch.backslash, Ch.b>>
    ELSE c.pattern

\* prepare_regex_pattern: -F escapes, -w wraps in \b
prepare_regex_pattern(c) ==
    LET escaped == IF c.fixed_strings THEN Escape(c.pattern) ELSE c.pattern
    IN IF c.word_regexp
       THEN <<Ch.backslash, Ch.b>> \o escaped \o <<Ch.backslash, Ch.b>>
       ELSE escaped

-----------------------------------------------------------------------------
(* search.rs (and its older copy in main.rs): the collectors *)

\* io::Result: Ok(value) or Err(kind), with the diagnostics written meanwhile
Ok(v, diag) == [ok |-> TRUE, value |-> v, diag |-> diag]
Err(kind, diag) == [ok |-> FALSE, value |-> kind, diag |-> diag]

\* a display line: the format! literal and its arguments
Fmt(fmt, args) == [fmt |-> fmt, args |-> args]

\* a diagnostic line of eprintln!: main.rs signs "qae", the modules "qro"
Diag(copy, fmt, args) ==
    [prog |-> IF copy = "main.rs" THEN "qae" ELSE "qro", fmt |-> fmt, args |-> args]

\* enum ContentMatch
BinaryFile == [tag |-> "BinaryFile", line_number |-> 0, line |-> <<>>]
Line(n, text) == [tag |-> "Line", line_number |-> n, line |-> text]

\* BTreeMap: entry(k).or_default() and insert(k, v)
OrDefault(m, k) == IF k \in DOMAIN m THEN m[k] ELSE <<>>
Insert(m, k, v) == [x \in DOMAIN m \cup {k} |-> IF x = k THEN v ELSE m[x]]

\* What ContentSink holds after Searcher::search_path on one file: matched()
\* pushed a Line for every matching line ahead of the first NUL byte, with
\* its 1-based number.
RECURSIVE SinkMatches(_, _, _)
SinkMatches(re, lines, n) ==
    IF n > Len(lines) THEN <<>>
    ELSE (IF IsMatch(re, lines[n]) THEN <<Line(n, lines[n])>> ELSE <<>>)
         \o SinkMatches(re, lines, n + 1)

\* globset: a glob compiles unless it opens a character class that it
\* never closes
GlobValid(g) == \A i \in 1..Len(g) : g[i] # Ch.lbracket

\* glob g from index i on matches s from index j on: '*' stands for any run
\* of characters other than '/', every other character for itself
RECURSIVE GlobMatchAt(_, _, _, _)
GlobMatchAt(g, i, s, j) ==
    IF i > Len(g) THEN j > Len(s)
    ELSE IF g[i] = Ch.star
    THEN \/ GlobMatchAt(g, i + 1, s, j)
         \/ j <= Len(s) /\ s[j] # Ch.slash /\ GlobMatchAt(g, i, s, j + 1)
    ELSE j <= Len(s) /\ g[i] = s[j] /\ GlobMatchAt(g, i + 1, s, j + 1)

\* the indices of the '/' of a path
Slashes(path) == {i \in 1..Len(path) : path[i] = Ch.slash}

\* a path without its directories, and without the search root
Basename(path) ==
    IF Slashes(path) = {} THEN path
    ELSE SubSeq(path, 1 + (CHOOSE i \in Slashes(path) : \A j \in Slashes(path) : j <= i),
                Len(path))
BelowRoot(path) ==
    IF Slashes(path) = {} THEN path
    ELSE SubSeq(path, 1 + (CHOOSE i \in Slashes(path) : \A j \in Slashes(path) : i <= j),
                Len(path))

\* the directories between the search root and the path
Ancestors(path) ==
    {SubSeq(path, 1, i - 1) : i \in {k \in Slashes(path) : \E j \in Slashes(path) : j < k}}

\* the gitignore rule the override globs follow: a glob without '/' is
\* tried on the name of the entry at any depth, a glob with '/' on its path
\* below the root
GlobMatches(g, path) ==
    IF \E i \in 1..Len(g) : g[i] = Ch.slash
    THEN GlobMatchAt(g, 1, BelowRoot(path), 1)
    ELSE GlobMatchAt(g, 1, Basename(path), 1)

\* the include globs added to the override set, in the order given
IncludeLines(c) == [i \in 1..Len(c.glob) |-> [glob |-> c.glob[i], negated |-> FALSE]]

\* the exclude patterns added to the override set: format!("!{pattern}")
ExcludeLines(c) == [i \in 1..Len(c.exclude) |-> [glob |-> c.exclude[i], negated |-> TRUE]]

\* a mutant of OverrideLines: the excludes are added first
OverrideLinesExcludesFirst(c) == ExcludeLines(c) \o IncludeLines(c)

\* the lines of the override set build_walker assembles
OverrideLines(c) == IncludeLines(c) \o ExcludeLines(c)

\* Override::matched: the last line whose glob matches decides; with no
\* match, a file is ignored when the set holds an include glob
OverrideMatched(lines, path, is_dir) ==
    LET hits == {i \in 1..Len(lines) : GlobMatches(lines[i].glob, path)}
    IN IF hits # {}
       THEN (IF lines[CHOOSE i \in hits : \A j \in hits : j <= i].negated
             THEN "ignore" ELSE "whitelist")
       ELSE IF (\E i \in 1..Len(lines) : ~lines[i].negated) /\ ~is_dir
       THEN "ignore"
       ELSE "none"

\* the walk yields entry e: no directory above it was ignored, nor is it
\* (a failed entry is yielded as the error it is)
Visits(lines, e) ==
    \/ e.kind = "error"
    \/ /\ OverrideMatched(lines, e.path, e.kind = "dir") # "ignore"
       /\ \A d \in Ancestors(e.path) : OverrideMatched(lines, d, TRUE) # "ignore"

\* build_walker: the entries the walk yields, or InvalidInput for a glob
\* that does not compile
build_walker(c, w) ==
    IF \/ \E i \in 1..Len(c.glob) : ~GlobValid(c.glob[i])
       \/ \E i \in 1..Len(c.exclude) : ~GlobValid(c.exclude[i])
    THEN Err("InvalidInput", <<>>)
    ELSE Ok(SelectSeq(w.entries, LAMBDA e : Visits(OverrideLines(c), e)), <<>>)

\* a mutant of NamesLoop: the loop ends at the first entry the walk fails on
RECURSIVE NamesLoopStopsAtError(_, _, _, _)
NamesLoopStopsAtError(copy, re, entries, i) ==
    IF i > Len(entries) THEN [matches |-> <<>>, diag |-> <<>>]
    ELSE
      LET e == entries[i]
          rest == NamesLoopStopsAtError(copy, re, entries, i + 1)
      IN IF e.kind = "error"
         THEN [matches |-> <<>>, diag |-> <<Diag(copy, "{err}", <<e.path>>)>>]
         ELSE IF e.kind = "dir" THEN rest
         ELSE IF IsMatch(re, e.path)
         THEN [matches |-> <<e.path>> \o rest.matches, diag |-> rest.diag]
         ELSE rest

\* the loop of search_names over the walker's entries
RECURSIVE NamesLoop(_, _, _, _)
NamesLoop(copy, re, entries, i) ==
    IF i > Len(entries) THEN [matches |-> <<>>, diag |-> <<>>]
    ELSE
      LET e == entries[i]
          rest == NamesLoop(copy, re, entries, i + 1)
      IN IF e.kind = "error"
         THEN [matches |-> rest.matches,
               diag |-> <<Diag(copy, "{err}", <<e.path>>)>> \o rest.diag]
         ELSE IF e.kind = "dir" THEN rest
         ELSE IF IsMatch(re, e.path)
         THEN [matches |-> <<e.path>> \o rest.matches, diag |-> rest.diag]
         ELSE rest

\* the matcher search_names and search_content build
names_matcher(c) == Compile(prepare_regex_pattern(c), c.ignore_case)

\* search_names (search.rs)
search_names(c, w) ==
    LET re == names_matcher(c)
        walk == build_walker(c, w)
    IN IF ~re.ok \/ ~walk.ok THEN Err("InvalidInput", <<>>)
       ELSE LET r == NamesLoop("search.rs", re, walk.value, 1)
            IN Ok(r.matches, r.diag)

\* search_names (the copy in main.rs)
main_search_names(c, w) ==
    LET re == names_matcher(c)
        walk == build_walker(c, w)
    IN IF ~re.ok \/ ~walk.ok THEN Err("InvalidInput", <<>>)
       ELSE LET r == NamesLoop("main.rs", re, walk.value, 1)
            IN Ok(r.matches, r.diag)

\* a mutant of resolve_entry: the raw lines are kept beside the marker
ResolveKeepsLines(results, path, matches, saw_binary) ==
    IF saw_binary /\ matches # <<>>
    THEN Insert(results, path, matches \o <<BinaryFile>>)
    ELSE IF matches # <<>> THEN Insert(results, path, matches)
    ELSE results

\* search_content's decision for one searched file (search.rs)
resolve_entry(results, path, matches, saw_binary) ==
    IF saw_binary /\ matches # <<>>
    THEN Insert(results, path, OrDefault(results, path) \o <<BinaryFile>>)
    ELSE IF matches # <<>> THEN Insert(results, path, matches)
    ELSE results

\* search_content's decision for one searched file (the copy in main.rs)
main_resolve_entry(results, path, matches, saw_binary) ==
    IF saw_binary
    THEN Insert(results, path, OrDefault(results, path) \o <<BinaryFile>>)
    ELSE IF matches # <<>> THEN Insert(results, path, matches)
    ELSE results

\* the loop of search_content over the walker's entries; copy names the
\* source file whose search_content runs
RECURSIVE ContentLoop(_, _, _, _, _)
ContentLoop(copy, re, entries, i, acc) ==
    IF i > Len(entries) THEN acc
    ELSE
      LET e == entries[i]
          matches == SinkMatches(re, e.lines, 1)
          next ==
            IF e.kind = "error"
            THEN [acc EXCEPT !.diag = @ \o <<Diag(copy, "{err}", <<e.path>>)>>]
            ELSE IF e.kind = "dir" THEN acc
            ELSE IF e.unreadable
            THEN [acc EXCEPT !.diag = @ \o <<Diag(copy, "{}: {err}", <<e.path>>)>>]
            ELSE [acc EXCEPT !.results =
                    IF copy = "main.rs"
                    THEN main_resolve_entry(@, e.path, matches, e.nul)
                    ELSE resolve_entry(@, e.path, matches, e.nul)]
      IN ContentLoop(copy, re, entries, i + 1, next)

\* search_content (search.rs)
search_content(c, w) ==
    LET re == names_matcher(c)
        walk == build_walker(c, w)
    IN IF ~re.ok \/ ~walk.ok THEN Err("InvalidInput", <<>>)
       ELSE LET r == ContentLoop("search.rs", re, walk.value, 1,
                                 [results |-> <<>>, diag |-> <<>>])
            IN Ok(r.results, r.diag)

\* search_content (the copy in main.rs)
main_search_content(c, w) ==
    LET re == names_matcher(c)
        walk == build_walker(c, w)
    IN IF ~re.ok \/ ~walk.ok THEN Err("InvalidInput", <<>>)
       ELSE LET r == ContentLoop("main.rs", re, walk.value, 1,
                                 [results |-> <<>>, diag |-> <<>>])
            IN Ok(r.results, r.diag)

-----------------------------------------------------------------------------
(* output.rs (and its older copy in main.rs): blocks and their printing *)

\* an output block (String, Vec<String>): its sort key and its lines
Block(key, lines) == <<key, lines>>
Key(b) == b[1]
Lines(b) == b[2]

\* println!()
Blank == Fmt("", <<>>)

\* the least string of a non-empty set, in String order
MinStr(S) == CHOOSE x \in S : \A y \in S \ {x} : StrLess(x, y)

\* the strings of S in ascending order: the iteration order of a BTreeMap
\* or BTreeSet
RECURSIVE Ascending(_)
Ascending(S) ==
    IF S = {} THEN <<>> ELSE <<MinStr(S)>> \o Ascending(S \ {MinStr(S)})

\* a mutant of OfRepo: the matches of every repository are taken
OfRepoAll(s, repo) == s

\* the subsequence of s whose elements satisfy s[i].repo = repo
RECURSIVE OfRepo(_, _)
OfRepo(s, repo) ==
    IF s = <<>> THEN <<>>
    ELSE (IF Head(s).repo = repo THEN <<Head(s)>> ELSE <<>>) \o OfRepo(Tail(s), repo)

\* the lines of one log block after its header (output.rs)
RECURSIVE LogLines(_)
LogLines(ms) ==
    IF ms = <<>> THEN <<>>
    ELSE <<Fmt("  {} {} {}", <<Head(ms).hash, Head(ms).date, Head(ms).message>>)>>
         \o LogLines(Tail(ms))

\* the sort key of a repository's log block: format!("{repo}/\x7f")
LogKey(repo) == repo \o <<Ch.slash, Ch.del>>

\* the blocks of the repositories repos[i..], in that order
RECURSIVE LogBlocksOf(_, _, _)
LogBlocksOf(log, repos, i) ==
    IF i > Len(repos) THEN <<>>
    ELSE <<Block(LogKey(repos[i]),
                 <<Fmt("{repo} (git log):", <<repos[i]>>)>>
                     \o LogLines(OfRepo(log, repos[i])))>>
         \o LogBlocksOf(log, repos, i + 1)

\* git_log_blocks (output.rs)
git_log_blocks(log) ==
    LogBlocksOf(log, Ascending({log[i].repo : i \in 1..Len(log)}), 1)

\* b placed after the blocks of the sorted sequence s whose key is not greater
RECURSIVE InsertBlock(_, _)
InsertBlock(s, b) ==
    IF s = <<>> THEN <<b>>
    ELSE IF StrLess(Key(b), Key(Head(s))) THEN <<b>> \o s
    ELSE <<Head(s)>> \o InsertBlock(Tail(s), b)

\* a mutant of SortByKey: the blocks stay in the order of collection
SortSkipped(bs) == bs

\* blocks.sort_by(|a, b| a.0.cmp(&b.0)): a stable sort by key
RECURSIVE SortByKey(_)
SortByKey(bs) ==
    IF bs = <<>> THEN <<>>
    ELSE InsertBlock(SortByKey(SubSeq(bs, 1, Len(bs) - 1)), bs[Len(bs)])

\* a mutant of Separator: a blank line between any two blocks
SeparatorAlways(first, multi, prev_multi) == IF ~first THEN <<Blank>> ELSE <<>>

\* the blank line print_blocks writes ahead of a block, if any
Separator(first, multi, prev_multi) ==
    IF ~first /\ (multi \/ prev_multi) THEN <<Blank>> ELSE <<>>

\* the loop of print_blocks over the sorted blocks i.., as the lines written
RECURSIVE PrintLoop(_, _, _, _)
PrintLoop(bs, i, prev_multi, first) ==
    IF i > Len(bs) THEN <<>>
    ELSE LET multi == Len(Lines(bs[i])) > 1
         IN Separator(first, multi, prev_multi) \o Lines(bs[i])
                \o PrintLoop(bs, i + 1, multi, FALSE)

\* a mutant of print_blocks: a blank line closes the report
PrintBlocksTrailingBlank(bs) ==
    LET sorted == SortByKey(bs)
    IN [blocks |-> sorted, out |-> PrintLoop(sorted, 1, FALSE, TRUE) \o <<Blank>>]

\* print_blocks: the blocks as it leaves them, and the lines it writes
print_blocks(bs) ==
    LET sorted == SortByKey(bs)
    IN [blocks |-> sorted, out |-> PrintLoop(sorted, 1, FALSE, TRUE)]

-----------------------------------------------------------------------------
(* git.rs (and its older copy in main.rs): repositories and their logs *)

\* What the world holds of git: whether the binary is installed; toplevel,
\* the answer of `git rev-parse --show-toplevel` for the search path (<<>>
\* when the path is in no work tree, else <<repository>>); children, the
\* directories read_dir yields.  A repository is [path, canonical, has_git,
\* status, commits]: canonical is <<>> when canonicalize fails, status is
\* how its log query ends ("ok", "nonzero", "ioerror").

\* a mutant of step 2: the canonical paths seen are not consulted
RECURSIVE DiscoverChildrenUnseen(_, _, _)
DiscoverChildrenUnseen(children, i, seen) ==
    IF i > Len(children) THEN <<>>
    ELSE LET c == children[i]
             new == c.has_git /\ c.canonical # <<>>
         IN (IF new THEN <<c.path>> ELSE <<>>)
            \o DiscoverChildrenUnseen(children, i + 1, seen)

\* discover_git_repos, step 2, over children i.. with the canonical paths seen
RECURSIVE DiscoverChildren(_, _, _)
DiscoverChildren(children, i, seen) ==
    IF i > Len(children) THEN <<>>
    ELSE LET c == children[i]
             new == c.has_git /\ c.canonical # <<>> /\ c.canonical \notin seen
         IN (IF new THEN <<c.path>> ELSE <<>>)
            \o DiscoverChildren(children, i + 1,
                                IF new THEN seen \cup {c.canonical} ELSE seen)

\* discover_git_repos
discover_git_repos(w) ==
    LET top == w.git_installed /\ w.toplevel # <<>>
                   /\ w.toplevel[1].canonical # <<>>
    IN (IF top THEN <<w.toplevel[1].path>> ELSE <<>>)
       \o DiscoverChildren(w.children, 1,
                           IF top THEN {w.toplevel[1].canonical} ELSE {})

\* the repository the path names
RepoAt(w, path) ==
    IF w.toplevel # <<>> /\ w.toplevel[1].path = path THEN w.toplevel[1]
    ELSE w.children[CHOOSE i \in 1..Len(w.children) : w.children[i].path = path]

\* The lines `git log -E [-i] --grep pattern` prints for the commits: one
\* per commit whose subject the pattern matches, "%h %ad %s" (git.rs) or
\* --oneline, "%h %s" (main.rs).
RECURSIVE GitLogOutput(_, _, _)
GitLogOutput(copy, re, commits) ==
    IF commits = <<>> THEN <<>>
    ELSE LET c == Head(commits)
             line == IF copy = "main.rs" THEN c.hash \o <<Ch.sp>> \o c.subject
                     ELSE c.hash \o <<Ch.sp>> \o c.date \o <<Ch.sp>> \o c.subject
         IN (IF IsMatch(re, c.subject) THEN <<line>> ELSE <<>>)
            \o GitLogOutput(copy, re, Tail(commits))

\* the index of the first ' ' of s, or 0
FirstSpace(s) ==
    LET at == {i \in 1..Len(s) : s[i] = Ch.sp}
    IN IF at = {} THEN 0 ELSE CHOOSE i \in at : \A j \in at : i <= j

\* a mutant of ParseLog: the line is split at every space, and the message
\* is the third field
RECURSIVE ParseLogSplitsAll(_, _, _)
ParseLogSplitsAll(copy, repo, lines) ==
    IF lines = <<>> THEN <<>>
    ELSE LET l == Head(lines)
             a == FirstSpace(l)
             rest == SubSeq(l, a + 1, Len(l))
             b == FirstSpace(rest)
             tail == SubSeq(rest, b + 1, Len(rest))
             c == FirstSpace(tail)
             m == IF a = 0 \/ b = 0 THEN <<>>
                  ELSE <<[repo |-> repo, hash |-> SubSeq(l, 1, a - 1),
                          date |-> SubSeq(rest, 1, b - 1),
                          message |-> IF c = 0 THEN tail
                                      ELSE SubSeq(tail, 1, c - 1)]>>
         IN m \o ParseLogSplitsAll(copy, repo, Tail(lines))

\* the matches parsed from the output lines of one repository
RECURSIVE ParseLog(_, _, _)
ParseLog(copy, repo, lines) ==
    IF lines = <<>> THEN <<>>
    ELSE LET l == Head(lines)
             a == FirstSpace(l)
             rest == SubSeq(l, a + 1, Len(l))
             b == FirstSpace(rest)
             m == IF copy = "main.rs"
                  THEN \* line.split_once(' ')
                       IF a = 0 THEN <<>>
                       ELSE <<[repo |-> repo, hash |-> SubSeq(l, 1, a - 1),
                               message |-> rest]>>
                  ELSE \* line.splitn(3, ' ')
                       IF a = 0 \/ b = 0 THEN <<>>
                       ELSE <<[repo |-> repo, hash |-> SubSeq(l, 1, a - 1),
                               date |-> SubSeq(rest, 1, b - 1),
                               message |-> SubSeq(rest, b + 1, Len(rest))]>>
         IN m \o ParseLog(copy, repo, Tail(lines))

\* the options search_git_log gives every query: -i when cli.ignore_case,
\* and --grep with the prepared pattern
git_log_args(c) == [ignore_case |-> c.ignore_case, grep |-> prepare_regex_pattern(c)]

\* a mutant of the loop: when git is missing outside log-only mode the
\* notice is written and the loop goes on to the next repository
RECURSIVE GitLogLoopGoesOn(_, _, _, _, _, _)
GitLogLoopGoesOn(copy, c, w, repos, i, acc) ==
    IF i > Len(repos) THEN Ok(acc.matches, acc.diag)
    ELSE
      LET repo == RepoAt(w, repos[i])
          re == Compile(prepare_regex_pattern(c), c.ignore_case)
      IN IF ~w.git_installed
         THEN IF c.log_only
              THEN Err("git is not installed", acc.diag)
              ELSE GitLogLoopGoesOn(copy, c, w, repos, i + 1,
                       [acc EXCEPT !.diag =
                            @ \o <<Diag(copy, "git not found, skipping log search", <<>>)>>])
         ELSE IF repo.status = "ioerror"
         THEN GitLogLoopGoesOn(copy, c, w, repos, i + 1,
                         [acc EXCEPT !.diag =
                              @ \o <<Diag(copy, "git log in {repo_str}: {e}", <<repo.path>>)>>])
         ELSE IF repo.status = "nonzero" \/ ~re.ok
         THEN GitLogLoopGoesOn(copy, c, w, repos, i + 1, acc)
         ELSE GitLogLoopGoesOn(copy, c, w, repos, i + 1,
                         [acc EXCEPT !.matches =
                              @ \o ParseLog(copy, repo.path,
                                            GitLogOutput(copy, re, repo.commits))])

\* a mutant of the loop: a query that exits non-zero ends the loop
RECURSIVE GitLogLoopBreaks(_, _, _, _, _, _)
GitLogLoopBreaks(copy, c, w, repos, i, acc) ==
    IF i > Len(repos) THEN Ok(acc.matches, acc.diag)
    ELSE
      LET repo == RepoAt(w, repos[i])
          re == Compile(prepare_regex_pattern(c), c.ignore_case)
      IN IF ~w.git_installed
         THEN IF c.log_only
              THEN Err("git is not installed", acc.diag)
              ELSE Ok(acc.matches,
                      acc.diag \o <<Diag(copy, "git not found, skipping log search", <<>>)>>)
         ELSE IF repo.status = "ioerror"
         THEN GitLogLoopBreaks(copy, c, w, repos, i + 1,
                         [acc EXCEPT !.diag =
                              @ \o <<Diag(copy, "git log in {repo_str}: {e}", <<repo.path>>)>>])
         ELSE IF repo.status = "nonzero" \/ ~re.ok
         THEN Ok(acc.matches, acc.diag)
         ELSE GitLogLoopBreaks(copy, c, w, repos, i + 1,
                         [acc EXCEPT !.matches =
                              @ \o ParseLog(copy, repo.path,
                                            GitLogOutput(copy, re, repo.commits))])

\* the loop of search_git_log over the discovered repositories i..
RECURSIVE GitLogLoop(_, _, _, _, _, _)
GitLogLoop(copy, c, w, repos, i, acc) ==
    IF i > Len(repos) THEN Ok(acc.matches, acc.diag)
    ELSE
      LET repo == RepoAt(w, repos[i])
          re == Compile(git_log_args(c).grep, git_log_args(c).ignore_case)
      IN IF ~w.git_installed
         THEN IF c.log_only
              THEN Err("git is not installed", acc.diag)
              ELSE Ok(acc.matches,
                      acc.diag \o <<Diag(copy, "git not found, skipping log search", <<>>)>>)
         ELSE IF repo.status = "ioerror"
         THEN GitLogLoop(copy, c, w, repos, i + 1,
                         [acc EXCEPT !.diag =
                              @ \o <<Diag(copy, "git log in {repo_str}: {e}", <<repo.path>>)>>])
         ELSE IF repo.status = "nonzero" \/ ~re.ok
         THEN GitLogLoop(copy, c, w, repos, i + 1, acc)
         ELSE GitLogLoop(copy, c, w, repos, i + 1,
                         [acc EXCEPT !.matches =
                              @ \o ParseLog(copy, repo.path,
                                            GitLogOutput(copy, re, repo.commits))])

\* search_git_log (git.rs)
search_git_log(c, w) ==
    GitLogLoop("git.rs", c, w, discover_git_repos(w), 1,
               [matches |-> <<>>, diag |-> <<>>])

\* search_git_log (the copy in main.rs)
main_search_git_log(c, w) ==
    GitLogLoop("main.rs", c, w, discover_git_repos(w), 1,
               [matches |-> <<>>, diag |-> <<>>])

\* the lines of one log block after its header (the copy in main.rs)
RECURSIVE MainLogLines(_)
MainLogLines(ms) ==
    IF ms = <<>> THEN <<>>
    ELSE <<Fmt("  {} {}", <<Head(ms).hash, Head(ms).message>>)>>
         \o MainLogLines(Tail(ms))

RECURSIVE MainLogBlocksOf(_, _, _)
MainLogBlocksOf(log, repos, i) ==
    IF i > Len(repos) THEN <<>>
    ELSE <<Block(LogKey(repos[i]),
                 <<Fmt("{repo} (git log):", <<repos[i]>>)>>
                     \o MainLogLines(OfRepo(log, repos[i])))>>
         \o MainLogBlocksOf(log, repos, i + 1)

\* git_log_blocks (the copy in main.rs)
main_git_log_blocks(log) ==
    MainLogBlocksOf(log, Ascending({log[i].repo : i \in 1..Len(log)}), 1)

-----------------------------------------------------------------------------
(* main.rs: run and main *)

\* a mutant of the validation: every conflict is reported as --names-only
ConflictAlwaysNamesOnly(c) ==
    IF c.log_only /\ (c.names_only \/ c.content_only \/ c.glob # <<>> \/ c.exclude # <<>>)
    THEN "--log-only and --names-only are mutually exclusive"
    ELSE ""

\* the validation at the head of run: the error message, or "" when the
\* flags are compatible
Conflict(c) ==
    IF c.log_only /\ c.names_only
    THEN "--log-only and --names-only are mutually exclusive"
    ELSE IF c.log_only /\ c.content_only
    THEN "--log-only and --content-only are mutually exclusive"
    ELSE IF c.log_only /\ c.glob # <<>>
    THEN "--log-only and --glob are mutually exclusive"
    ELSE IF c.log_only /\ c.exclude # <<>>
    THEN "--log-only and --ignore are mutually exclusive"
    ELSE ""

\* a mutant of ContentLines: the last match is displayed first
RECURSIVE ContentLinesReversed(_)
ContentLinesReversed(ms) ==
    IF ms = <<>> THEN <<>>
    ELSE ContentLinesReversed(Tail(ms))
         \o <<IF Head(ms).tag = "Line"
               THEN Fmt("  {line_number}:{line}", <<Head(ms).line_number, Head(ms).line>>)
               ELSE Fmt("  (binary file matches)", <<>>)>>

\* the display lines of a file's content matches
RECURSIVE ContentLines(_)
ContentLines(ms) ==
    IF ms = <<>> THEN <<>>
    ELSE <<IF Head(ms).tag = "Line"
           THEN Fmt("  {line_number}:{line}", <<Head(ms).line_number, Head(ms).line>>)
           ELSE Fmt("  (binary file matches)", <<>>)>>
         \o ContentLines(Tail(ms))

\* a mutant of NameBlocks: every name match is taken for a content match
RECURSIVE NameBlocksWithMarker(_)
NameBlocksWithMarker(names) ==
    IF names = <<>> THEN <<>>
    ELSE <<Block(Head(names), <<Fmt("{}", <<Head(names)>>),
                                Fmt("  (binary file matches)", <<>>)>>)>>
         \o NameBlocksWithMarker(Tail(names))

\* names-only mode: one single-line block per name match
RECURSIVE NameBlocks(_)
NameBlocks(names) ==
    IF names = <<>> THEN <<>>
    ELSE <<Block(Head(names), <<Fmt("{}", <<Head(names)>>)>>)>>
         \o NameBlocks(Tail(names))

\* content-only mode: one block per entry of the map, in key order
RECURSIVE ContentBlocks(_, _, _)
ContentBlocks(content, paths, i) ==
    IF i > Len(paths) THEN <<>>
    ELSE <<Block(paths[i], <<Fmt("{}", <<paths[i]>>)>>
                               \o ContentLines(content[paths[i]]))>>
         \o ContentBlocks(content, paths, i + 1)

\* a mutant of BothBlocks: a name match without a content entry is left as
\* the bare path
RECURSIVE BothBlocksBareNames(_, _, _, _)
BothBlocksBareNames(names, content, paths, i) ==
    IF i > Len(paths) THEN <<>>
    ELSE <<Block(paths[i],
                 <<Fmt("{}", <<paths[i]>>)>>
                     \o (IF paths[i] \in names /\ paths[i] \in DOMAIN content
                         THEN <<Fmt("  (name match)", <<>>)>> ELSE <<>>)
                     \o (IF paths[i] \in DOMAIN content
                         THEN ContentLines(content[paths[i]]) ELSE <<>>))>>
         \o BothBlocksBareNames(names, content, paths, i + 1)

\* a mutant of all_paths: the name matches chained with the content paths,
\* not collected into a set
AllPathsChained(names, content) == Ascending(names) \o Ascending(DOMAIN content)

\* run, both mode: all_paths, the BTreeSet of the name matches chained with
\* the keys of the content map, in its iteration order
all_paths(names, content) == Ascending(names \cup DOMAIN content)

\* both mode: one block per path of the union, in key order
RECURSIVE BothBlocks(_, _, _, _)
BothBlocks(names, content, paths, i) ==
    IF i > Len(paths) THEN <<>>
    ELSE <<Block(paths[i],
                 <<Fmt("{}", <<paths[i]>>)>>
                     \o (IF paths[i] \in names
                         THEN <<Fmt("  (name match)", <<>>)>> ELSE <<>>)
                     \o (IF paths[i] \in DOMAIN content
                         THEN ContentLines(content[paths[i]]) ELSE <<>>))>>
         \o BothBlocks(names, content, paths, i + 1)

-----------------------------------------------------------------------------
(* Values of the variables a specification does not use *)

NoWorld == [entries |-> <<>>, git_installed |-> TRUE, toplevel |-> <<>>,
            children |-> <<>>]

Idle ==
    /\ name_matches = <<>>
    /\ content_matches = <<>>
    /\ log_matches = <<>>
    /\ blocks = <<>>
    /\ stdout = <<>>
    /\ stderr = <<>>
    /\ exit_code = "running"
    /\ ret = "none"

-----------------------------------------------------------------------------
(* SpecCase: Cli::is_case_insensitive applied to every flag combination *)

CasePatterns == StringsUpTo({Ch.h, Ch.H, Ch.Eacute, Ch.dot}, MaxCasePatLen)

InitCase ==
    /\ pc = "is_case_insensitive"
    /\ cli \in {[DefaultCli EXCEPT !.pattern = p, !.case_sensitive = cs,
                                   !.ignore_case = ic, !.smart_case = sc,
                                   !.fixed_strings = fx, !.word_regexp = wr] :
                  p \in CasePatterns, cs \in BOOLEAN, ic \in BOOLEAN,
                  sc \in BOOLEAN, fx \in BOOLEAN, wr \in BOOLEAN}
    /\ world = NoWorld
    /\ Idle

CallIsCaseInsensitive ==
    /\ pc = "is_case_insensitive"
    /\ ret' = is_case_insensitive(cli)
    /\ pc' = "case_resolved"
    /\ UNCHANGED <<exit_code, cli, world, name_matches, content_matches, log_matches,
                   blocks, stdout, stderr>>

NextCase == CallIsCaseInsensitive

SpecCase == InitCase /\ [][NextCase]_vars

\* the raw pattern contains an uppercase letter
RawHasUppercase == \E i \in 1..Len(cli.pattern) : IsUppercase(cli.pattern[i])

\* C8: is_case_insensitive is false under --case-sensitive; otherwise true
\* under --ignore-case; otherwise, under --smart-case, true exactly when the
\* raw pattern has no uppercase letter; otherwise false.  Nothing else of the
\* request (literal mode, whole-word mode) enters the result.
C8_CasePrecedence ==
    pc = "case_resolved" =>
        /\ cli.case_sensitive => ret = FALSE
        /\ ~cli.case_sensitive /\ cli.ignore_case => ret = TRUE
        /\ ~cli.case_sensitive /\ ~cli.ignore_case /\ cli.smart_case
               => (ret <=> ~RawHasUppercase)
        /\ ~cli.case_sensitive /\ ~cli.ignore_case /\ ~cli.smart_case
               => ret = FALSE

\* the override beats --ignore-case and --smart-case together, in literal
\* whole-word mode
C8_Witness ==
    /\ pc = "case_resolved"
    /\ cli.case_sensitive /\ cli.ignore_case /\ cli.smart_case
    /\ cli.fixed_strings /\ cli.word_regexp
    /\ cli.pattern = <<Ch.h, Ch.H>>
    /\ ret = FALSE

-----------------------------------------------------------------------------
(* SpecPattern: prepare_regex_pattern applied to every raw pattern *)

PatAlphabet == {Ch.h, Ch.dot, Ch.star, Ch.lparen, Ch.backslash}

RawPatterns == StringsUpTo(PatAlphabet, MaxPatLen)

Texts == StringsUpTo(PatAlphabet, MaxTextLen)

InitPattern ==
    /\ pc = "prepare_regex_pattern"
    /\ cli \in {[DefaultCli EXCEPT !.pattern = p, !.fixed_strings = fx,
                                   !.word_regexp = wr] :
                  p \in RawPatterns, fx \in BOOLEAN, wr \in BOOLEAN}
    /\ world = NoWorld
    /\ Idle

CallPrepareRegexPattern ==
    /\ pc = "prepare_regex_pattern"
    /\ ret' = prepare_regex_pattern(cli)
    /\ pc' = "pattern_prepared"
    /\ UNCHANGED <<exit_code, cli, world, name_matches, content_matches, log_matches,
                   blocks, stdout, stderr>>

NextPattern == CallPrepareRegexPattern

SpecPattern == InitPattern /\ [][NextPattern]_vars

\* C10: with -F and without -w the prepared pattern compiles and matches a
\* text exactly when the text contains the raw pattern as a substring (the
\* pattern taken by itself, with no case-insensitive option); without -F and
\* -w the raw pattern is returned unchanged.
C10_LiteralMatchesLiterally ==
    pc = "pattern_prepared" =>
        /\ cli.fixed_strings /\ ~cli.word_regexp =>
               /\ Compile(ret, FALSE).ok
               /\ \A text \in Texts :
                      IsMatch(Compile(ret, FALSE), text)
                          <=> Contains(text, cli.pattern)
        /\ ~cli.fixed_strings /\ ~cli.word_regexp => ret = cli.pattern

\* the raw pattern "(." is not a valid regex, and matches only itself
\* once escaped
C10_Witness ==
    /\ pc = "pattern_prepared"
    /\ cli.fixed_strings /\ ~cli.word_regexp
    /\ cli.pattern = <<Ch.lparen, Ch.dot>>
    /\ ~Compile(cli.pattern, FALSE).ok
    /\ ret = <<Ch.backslash, Ch.lparen, Ch.backslash, Ch.dot>>
    /\ IsMatch(Compile(ret, FALSE), <<Ch.h, Ch.lparen, Ch.dot>>)
    /\ ~IsMatch(Compile(ret, FALSE), <<Ch.lparen, Ch.h>>)

-----------------------------------------------------------------------------
(* SpecWord: prepare_regex_pattern in whole-word mode *)

\* longest raw pattern drawn in whole-word mode
MaxWordPatLen == 3

WordAlphabet == {Ch.h, Ch.z, Ch.bar, Ch.dash}

WordPatterns == StringsUpTo(WordAlphabet, MaxWordPatLen)

WordTexts == StringsUpTo({Ch.h, Ch.z, Ch.dash}, MaxTextLen)

InitWord ==
    /\ pc = "prepare_word"
    /\ cli \in {[DefaultCli EXCEPT !.pattern = p, !.fixed_strings = fx,
                                   !.word_regexp = TRUE] :
                  p \in WordPatterns, fx \in BOOLEAN}
    /\ world = NoWorld
    /\ Idle

CallPrepareWord ==
    /\ pc = "prepare_word"
    /\ ret' = prepare_regex_pattern(cli)
    /\ pc' = "word_prepared"
    /\ UNCHANGED <<exit_code, cli, world, name_matches, content_matches, log_matches,
                   blocks, stdout, stderr>>

NextWord == CallPrepareWord

SpecWord == InitWord /\ [][NextWord]_vars

\* atoms i.. of branch re match exactly text[pos..e)
RECURSIVE FullMatchAt(_, _, _, _, _)
FullMatchAt(re, i, text, pos, e) ==
    IF i > Len(re.atoms) THEN pos = e
    ELSE
      LET a == re.atoms[i]
      IN IF a.k = "wordb"
         THEN /\ (a.star \/ IsBoundary(text, pos))
              /\ FullMatchAt(re, i + 1, text, pos, e)
         ELSE \/ a.star /\ FullMatchAt(re, i + 1, text, pos, e)
              \/ /\ pos < e
                 /\ CharOk(re, a, text[pos])
                 /\ FullMatchAt(re, IF a.star THEN i ELSE i + 1, text, pos + 1, e)

\* text[s..e) is an occurrence of the pattern
Occurs(re, text, s, e) ==
    \E k \in 1..Len(re.alts) : FullMatchAt(Branch(re, k), 1, text, s, e)

\* the occurrence text[s..e) lies inside a longer word: it starts or ends
\* with a word character that has a word character next to it outside
Embedded(text, s, e) ==
    /\ s < e
    /\ \/ IsWordChar(text[s]) /\ s > 1 /\ IsWordChar(text[s - 1])
       \/ IsWordChar(text[e - 1]) /\ e <= Len(text) /\ IsWordChar(text[e])

\* the pattern the wrap is applied to
WordBase(c) == IF c.fixed_strings THEN Escape(c.pattern) ELSE c.pattern

\* a text is reported only for an occurrence of the pattern that is not
\* embedded in a longer word
OnlyWholeWords(c, prepared) ==
    \A text \in WordTexts :
        IsMatch(Compile(prepared, FALSE), text) =>
            \E s \in 1..(Len(text) + 1), e \in 1..(Len(text) + 1) :
                /\ s <= e
                /\ Occurs(Compile(WordBase(c), FALSE), text, s, e)
                /\ ~Embedded(text, s, e)

\* C11: with -w the prepared pattern is the pattern (escaped first with -F)
\* between two \b, and a text matches it only through a whole-word
\* occurrence of the pattern: an occurrence embedded in a longer word is
\* never reported.
C11_WholeWordOnly ==
    pc = "word_prepared" =>
        /\ ret = <<Ch.backslash, Ch.b>> \o WordBase(cli) \o <<Ch.backslash, Ch.b>>
        /\ OnlyWholeWords(cli, ret)

\* C11 restricted to the patterns the wrap does hold for: literal mode, and
\* regex patterns without a top-level alternation
C11_WholeWordWithoutAlternation ==
    pc = "word_prepared"
    /\ (cli.fixed_strings \/ \A i \in 1..Len(cli.pattern) : cli.pattern[i] # Ch.bar) =>
        /\ ret = <<Ch.backslash, Ch.b>> \o WordBase(cli) \o <<Ch.backslash, Ch.b>>
        /\ OnlyWholeWords(cli, ret)

-----------------------------------------------------------------------------
(* SpecSearch: the collectors applied to small trees *)

\* longest walk drawn for the collectors
MaxEntries == 2

File(name, lines, nul) ==
    [kind |-> "file", path |-> <<Ch.t, Ch.slash>> \o name, lines |-> lines,
     nul |-> nul, unreadable |-> FALSE]

\* what the walker can yield: text files, a file with a NUL after a line
\* with "h", a file with a NUL and no "h", a directory, a failed entry, an
\* unreadable file
EntryUniverse ==
    { File(<<Ch.h>>, <<<<Ch.h>>>>, FALSE),
      File(<<Ch.H>>, <<<<Ch.H>>, <<Ch.dot>>, <<Ch.h, Ch.H>>>>, FALSE),
      File(<<Ch.z>>, <<<<Ch.h>>>>, TRUE),
      File(<<Ch.f>>, <<<<Ch.dot>>>>, TRUE),
      File(<<Ch.dot>>, <<>>, TRUE),
      [File(<<Ch.r>>, <<>>, FALSE) EXCEPT !.kind = "dir"],
      [File(<<Ch.w>>, <<>>, FALSE) EXCEPT !.kind = "error"],
      [File(<<Ch.b>>, <<<<Ch.h>>>>, FALSE) EXCEPT !.unreadable = TRUE] }

\* the walker visits every path once
Walks(n) ==
    {w \in UNION {[1..k -> EntryUniverse] : k \in 0..n} :
        \A i, j \in 1..Len(w) : i # j => w[i].path # w[j].path}

SearchPatterns == {<<Ch.h>>, <<Ch.H>>, <<Ch.dot>>, <<Ch.lparen>>}

InitSearch ==
    /\ pc = "search"
    /\ cli \in {[DefaultCli EXCEPT !.pattern = p, !.case_sensitive = cs,
                                   !.ignore_case = ic, !.smart_case = sc,
                                   !.fixed_strings = fx] :
                  p \in SearchPatterns, cs \in BOOLEAN, ic \in BOOLEAN,
                  sc \in BOOLEAN, fx \in BOOLEAN}
    /\ world \in {[NoWorld EXCEPT !.entries = w] : w \in Walks(MaxEntries)}
    /\ Idle

CallSearchNames ==
    /\ pc = "search"
    /\ LET r == search_names(cli, world)
       IN /\ ret' = r
          /\ stderr' = stderr \o r.diag
          /\ name_matches' = IF r.ok THEN r.value ELSE name_matches
    /\ pc' = "names_done"
    /\ UNCHANGED <<exit_code, cli, world, content_matches, log_matches, blocks, stdout>>

CallSearchContent ==
    /\ pc = "search"
    /\ LET r == search_content(cli, world)
       IN /\ ret' = r
          /\ stderr' = stderr \o r.diag
          /\ content_matches' = IF r.ok THEN r.value ELSE content_matches
    /\ pc' = "content_done"
    /\ UNCHANGED <<exit_code, cli, world, name_matches, log_matches, blocks, stdout>>

CallMainSearchContent ==
    /\ pc = "search"
    /\ LET r == main_search_content(cli, world)
       IN /\ ret' = r
          /\ stderr' = stderr \o r.diag
          /\ content_matches' = IF r.ok THEN r.value ELSE content_matches
    /\ pc' = "main_content_done"
    /\ UNCHANGED <<exit_code, cli, world, name_matches, log_matches, blocks, stdout>>

NextSearch == CallSearchNames \/ CallSearchContent \/ CallMainSearchContent

SpecSearch == InitSearch /\ [][NextSearch]_vars

\* the files search_content searched to the end
Searched == {i \in 1..Len(world.entries) :
                world.entries[i].kind = "file" /\ ~world.entries[i].unreadable}

\* number of lines of entry i the built matcher matched
Accumulated(i) == Len(SinkMatches(names_matcher(cli), world.entries[i].lines, 1))

ContentReturned == pc \in {"content_done", "main_content_done"} /\ ret.ok

\* C5: a file in which a NUL is met after at least one line matched has
\* exactly one BinaryFile marker as its entry, and no entry mixes Line
\* entries with a BinaryFile marker.
C5_BinaryCollapses ==
    ContentReturned =>
        /\ \A i \in Searched :
               world.entries[i].nul /\ Accumulated(i) > 0 =>
                   /\ world.entries[i].path \in DOMAIN content_matches
                   /\ content_matches[world.entries[i].path] = <<BinaryFile>>
        /\ \A p \in DOMAIN content_matches :
               \A j, k \in 1..Len(content_matches[p]) :
                   content_matches[p][j].tag = "BinaryFile" => j = k

\* "h" is found in t/z ahead of its NUL, and in the text file t/h
C5_Witness ==
    /\ ContentReturned
    /\ DOMAIN content_matches = {<<Ch.t, Ch.slash, Ch.z>>, <<Ch.t, Ch.slash, Ch.h>>}
    /\ content_matches[<<Ch.t, Ch.slash, Ch.z>>] = <<BinaryFile>>
    /\ content_matches[<<Ch.t, Ch.slash, Ch.h>>] = <<Line(1, <<Ch.h>>)>>

\* C6: a file with a NUL and no accumulated match has no entry, a file with
\* neither has none, and no entry is an empty list.
C6_NoMatchNoEntry ==
    ContentReturned =>
        /\ \A i \in Searched :
               Accumulated(i) = 0 =>
                   world.entries[i].path \notin DOMAIN content_matches
        /\ \A p \in DOMAIN content_matches : content_matches[p] # <<>>

\* C6 for search_content of search.rs alone
C6_SearchRsNoMatchNoEntry == pc = "content_done" => C6_NoMatchNoEntry

\* C9: search_names and search_content match case-insensitively exactly when
\* the resolved case policy (is_case_insensitive) is insensitive: what they
\* return is what a matcher with that policy selects.
C9_MatcherFollowsPolicy ==
    LET re == Compile(prepare_regex_pattern(cli), is_case_insensitive(cli))
    IN /\ pc = "names_done" /\ ret.ok =>
              \A i \in 1..Len(world.entries) :
                  world.entries[i].kind = "file" =>
                      ((\E k \in 1..Len(name_matches) :
                            name_matches[k] = world.entries[i].path)
                       <=> IsMatch(re, world.entries[i].path))
       /\ pc = "content_done" /\ ret.ok =>
              \A i \in Searched :
                  ~world.entries[i].nul =>
                      OrDefault(content_matches, world.entries[i].path)
                          = SinkMatches(re, world.entries[i].lines, 1)

-----------------------------------------------------------------------------
(* SpecPrint: git_log_blocks and print_blocks applied to collected matches *)

\* most file blocks collected ahead of the log blocks
MaxFileBlocks == 2
\* most log matches collected
MaxLogMatches == 2

Root == <<Ch.t>>
RepoR == Root \o <<Ch.slash, Ch.r>>
RepoRZ == Root \o <<Ch.slash, Ch.r, Ch.dash, Ch.z>>
RepoTop == <<Ch.slash, Ch.w>>

\* paths the walker reports below the root t: t/r/f, t/r/e-acute and
\* t/r/DEL (whose path is the sort key of t/r's log block) inside the
\* repository t/r, t/r-z/f inside t/r-z, and t/h
ReportedPaths ==
    { RepoR \o <<Ch.slash, Ch.f>>, RepoR \o <<Ch.slash, Ch.eacute>>,
      RepoR \o <<Ch.slash, Ch.del>>,
      RepoRZ \o <<Ch.slash, Ch.f>>, Root \o <<Ch.slash, Ch.h>> }

\* the block of a bare name match, and of a path with one matched line
SingleBlock(p) == Block(p, <<Fmt("{}", <<p>>)>>)
MultiBlock(p) ==
    Block(p, <<Fmt("{}", <<p>>), Fmt("  {line_number}:{line}", <<1, <<Ch.h>>>>)>>)

Distinct(s) == \A i, j \in 1..Len(s) : i # j => s[i] # s[j]

\* File blocks as run collects them: name matches in the walker's order
\* (single lines), or the blocks of a BTreeMap in key order.
FileBlockSeqs ==
    {bs \in UNION {[1..k -> {SingleBlock(p) : p \in ReportedPaths}
                             \cup {MultiBlock(p) : p \in ReportedPaths}] :
                      k \in 0..MaxFileBlocks} :
        /\ Distinct([i \in 1..Len(bs) |-> Key(bs[i])])
        /\ \/ \A i \in 1..Len(bs) : Len(Lines(bs[i])) = 1
           \/ \A i \in 1..(Len(bs) - 1) : StrLess(Key(bs[i]), Key(bs[i + 1]))}

Commit(repo, hash) ==
    [repo |-> repo, hash |-> <<hash>>, date |-> <<Ch.dash>>, message |-> <<Ch.h>>]

\* Log matches as search_git_log collects them: repository after
\* repository, no commit twice.
LogMatchSeqs ==
    {ms \in UNION {[1..k -> {Commit(r, c) : r \in {RepoR, RepoRZ, RepoTop},
                                            c \in {Ch.f, Ch.b}}] :
                      k \in 0..MaxLogMatches} :
        /\ Distinct(ms)
        /\ \A i, j, k \in 1..Len(ms) :
               i < j /\ j < k /\ ms[i].repo = ms[k].repo => ms[j].repo = ms[i].repo}

InitPrint ==
    /\ pc = "git_log_blocks"
    /\ cli = DefaultCli
    /\ world = NoWorld
    /\ name_matches = <<>>
    /\ content_matches = <<>>
    /\ log_matches \in LogMatchSeqs
    /\ blocks \in FileBlockSeqs
    /\ stdout = <<>>
    /\ stderr = <<>>
    /\ exit_code = "running"
    /\ ret = "none"

\* blocks.extend(git_log_blocks(&log_matches))
CallGitLogBlocks ==
    /\ pc = "git_log_blocks"
    /\ blocks' = blocks \o git_log_blocks(log_matches)
    /\ pc' = "print_blocks"
    /\ UNCHANGED <<exit_code, cli, world, name_matches, content_matches, log_matches,
                   stdout, stderr, ret>>

\* print_blocks(&mut blocks)
CallPrintBlocks ==
    /\ pc = "print_blocks"
    /\ LET r == print_blocks(blocks)
       IN /\ blocks' = r.blocks
          /\ stdout' = stdout \o r.out
    /\ pc' = "printed"
    /\ UNCHANGED <<exit_code, cli, world, name_matches, content_matches, log_matches,
                   stderr, ret>>

NextPrint == CallGitLogBlocks \/ CallPrintBlocks

SpecPrint == InitPrint /\ [][NextPrint]_vars

(* Reading the report *)

IsPrefix(p, s) == Len(p) <= Len(s) /\ SubSeq(s, 1, Len(p)) = p

IsLogBlock(b) == Lines(b)[1].fmt = "{repo} (git log):"

\* the path a block reports: a file's path, or the repository of a log block
PathOf(b) == Lines(b)[1].args[1]

\* the position in stdout of the first line of block i
Pos(i) == CHOOSE k \in 1..Len(stdout) : stdout[k] = Lines(blocks[i])[1]

\* the directory holding path s, with its trailing '/'
ParentDir(s) ==
    LET slashes == {i \in 1..Len(s) : s[i] = Ch.slash}
    IN IF slashes = {} THEN <<>>
       ELSE SubSeq(s, 1, CHOOSE i \in slashes : \A j \in slashes : j <= i)

\* block b reports a path in directory d: a file below d, or d's own log
InDir(b, d) ==
    IF IsLogBlock(b) THEN PathOf(b) = d ELSE IsPrefix(d \o <<Ch.slash>>, PathOf(b))

\* d is a directory beside repo that sorts after it, and b lies in d
InLaterSibling(b, repo) ==
    \E n \in 1..Len(PathOf(b)) :
        LET d == SubSeq(PathOf(b), 1, n)
        IN /\ InDir(b, d)
           /\ d # repo
           /\ ParentDir(d) = ParentDir(repo)
           /\ StrLess(repo, d)

RECURSIVE Flatten(_)
Flatten(bs) == IF bs = <<>> THEN <<>> ELSE Lines(Head(bs)) \o Flatten(Tail(bs))

NotBlank(l) == l # Blank

\* C1: the log block of a repository is printed before every block of a
\* sibling directory that sorts after the repository.
C1_LogBeforeLaterSiblings ==
    pc = "printed" =>
        \A i, j \in 1..Len(blocks) :
            IsLogBlock(blocks[i]) /\ InLaterSibling(blocks[j], PathOf(blocks[i]))
                => Pos(i) < Pos(j)

\* C2: the key of a repository's log block is greater than the key of every
\* file block from inside the repository, and the log block is printed after
\* those blocks with no block from outside the repository in between.
C2_LogFollowsOwnFiles ==
    pc = "printed" =>
        \A i, j \in 1..Len(blocks) :
            /\ IsLogBlock(blocks[i])
            /\ ~IsLogBlock(blocks[j])
            /\ InDir(blocks[j], PathOf(blocks[i]))
            => /\ StrLess(Key(blocks[j]), Key(blocks[i]))
               /\ Pos(j) < Pos(i)
               /\ \A k \in 1..Len(blocks) :
                      Pos(j) < Pos(k) /\ Pos(k) < Pos(i)
                          => ~IsLogBlock(blocks[k])
                             /\ InDir(blocks[k], PathOf(blocks[i]))

\* C3: print_blocks prints the blocks it was given, each once, in
\* non-decreasing byte-wise order of their keys.
C3_PrintedInKeyOrder ==
    [][pc = "print_blocks" /\ pc' = "printed" =>
          /\ Len(blocks') = Len(blocks)
          /\ {blocks'[i] : i \in 1..Len(blocks')} = {blocks[i] : i \in 1..Len(blocks)}
          /\ \A i, j \in 1..Len(blocks') :
                 StrLess(Key(blocks'[i]), Key(blocks'[j])) => i < j
          /\ SelectSeq(stdout', NotBlank) = Flatten(blocks')]_vars

\* the log block of /w, appended after the file blocks, is printed first, ahead of
\* two name matches
C3_Witness ==
    /\ pc = "printed"
    /\ Len(blocks) = 3
    /\ blocks[1] = Block(LogKey(RepoTop),
                         <<Fmt("{repo} (git log):", <<RepoTop>>),
                           Fmt("  {} {} {}", <<<<Ch.f>>, <<Ch.dash>>, <<Ch.h>>>>)>>)
    /\ blocks[2] = SingleBlock(Root \o <<Ch.slash, Ch.h>>)
    /\ blocks[3] = SingleBlock(RepoR \o <<Ch.slash, Ch.eacute>>)
    /\ stdout = Lines(blocks[1]) \o <<Blank>> \o Lines(blocks[2]) \o Lines(blocks[3])

\* block i has more than one line
Multi(i) == Len(Lines(blocks[i])) > 1

\* C4: a blank line stands immediately before block i exactly when i is not
\* the first block and block i or block i-1 has more than one line; no
\* other blank line is written (none first, none last, none inside a block).
C4_BlankLineRule ==
    pc = "printed" =>
        /\ \A i \in 1..Len(blocks) :
               (Pos(i) > 1 /\ stdout[Pos(i) - 1] = Blank)
                   <=> (i > 1 /\ (Multi(i) \/ Multi(i - 1)))
        /\ \A k \in 1..Len(stdout) :
               stdout[k] = Blank => \E i \in 1..Len(blocks) : Pos(i) = k + 1
        /\ Len(stdout) = Len(Flatten(blocks))
               + Cardinality({i \in 2..Len(blocks) : Multi(i) \/ Multi(i - 1)})

\* two single-line blocks with no blank line between them, then a blank
\* line and a log block, which ends the output
C4_Witness ==
    /\ pc = "printed"
    /\ Len(blocks) = 3
    /\ ~Multi(1) /\ ~Multi(2) /\ Multi(3)
    /\ stdout = Lines(blocks[1]) \o Lines(blocks[2]) \o <<Blank>> \o Lines(blocks[3])

-----------------------------------------------------------------------------
(* Spec: one execution of main, from the parsed command line to the exit *)

\* longest walk drawn for a run
MaxRunEntries == 2

\* a mutant of Mode: --content-only is tested ahead of --names-only
ModeContentFirst(c) ==
    IF c.log_only THEN "log_only"
    ELSE IF c.content_only THEN "content_only"
    ELSE IF c.names_only THEN "names_only"
    ELSE "both"

\* the mode run takes for a request that passed validation
Mode(c) ==
    IF c.log_only THEN "log_only"
    ELSE IF c.names_only THEN "names_only"
    ELSE IF c.content_only THEN "content_only"
    ELSE "both"

RunEntryUniverse ==
    { File(<<Ch.h>>, <<<<Ch.h>>>>, FALSE),
      File(<<Ch.z>>, <<<<Ch.h>>>>, TRUE),
      File(<<Ch.f>>, <<<<Ch.dot>>>>, TRUE),
      File(<<Ch.r, Ch.slash, Ch.h>>, <<<<Ch.dot>>, <<Ch.h>>>>, FALSE),
      File(<<Ch.h, Ch.dash>>, <<>>, FALSE),
      [File(<<Ch.h, Ch.h>>, <<>>, FALSE) EXCEPT !.unreadable = TRUE],
      [File(<<Ch.w>>, <<>>, FALSE) EXCEPT !.kind = "error"] }

RunWalks ==
    {w \in UNION {[1..k -> RunEntryUniverse] : k \in 0..MaxRunEntries} :
        \A i, j \in 1..Len(w) : i # j => w[i].path # w[j].path}

Repo(path, canonical, status, commits) ==
    [path |-> path, canonical |-> canonical, has_git |-> TRUE,
     status |-> status, commits |-> commits]

CommitH == [hash |-> <<Ch.f>>, date |-> <<Ch.dash>>, subject |-> <<Ch.h>>]
CommitDot == [hash |-> <<Ch.b>>, date |-> <<Ch.dash>>, subject |-> <<Ch.dot, Ch.sp, Ch.z>>]

\* the git side of the worlds drawn: no repository; the root inside /w with
\* the repository t/r below it; t/r beside t/r-z whose query fails; t/r
\* reached twice (the root is t/r's work tree); the same without git; and
\* t/r whose query cannot be run
GitWorlds ==
    { [git_installed |-> TRUE, toplevel |-> <<>>, children |-> <<>>],
      [git_installed |-> TRUE,
       toplevel |-> <<Repo(RepoTop, RepoTop, "ok", <<CommitH, CommitDot>>)>>,
       children |-> <<Repo(RepoR, RepoR, "ok", <<CommitH>>)>>],
      [git_installed |-> TRUE, toplevel |-> <<>>,
       children |-> <<Repo(RepoRZ, RepoRZ, "nonzero", <<CommitH>>),
                      Repo(RepoR, RepoR, "ok", <<CommitDot, CommitH>>)>>],
      [git_installed |-> TRUE,
       toplevel |-> <<Repo(RepoTop, RepoTop, "ok", <<CommitDot>>)>>,
       children |-> <<Repo(RepoR, RepoTop, "ok", <<CommitDot>>)>>],
      [git_installed |-> FALSE, toplevel |-> <<>>,
       children |-> <<Repo(RepoR, RepoR, "ok", <<CommitH>>)>>],
      [git_installed |-> FALSE, toplevel |-> <<>>,
       children |-> <<Repo(RepoRZ, RepoRZ, "ok", <<CommitH>>),
                      Repo(RepoR, RepoR, "ok", <<CommitH>>)>>],
      [git_installed |-> TRUE, toplevel |-> <<>>,
       children |-> <<Repo(RepoR, RepoR, "ioerror", <<CommitH>>)>>],
      [git_installed |-> FALSE, toplevel |-> <<>>, children |-> <<>>] }

RunPatterns == {<<Ch.h>>, <<Ch.dot>>, <<Ch.lparen>>}

\* the include globs drawn: none, "*", and "[" that does not compile
RunGlobs == {<<>>, <<<<Ch.star>>>>, <<<<Ch.lbracket>>>>}

\* the requests drawn: every combination of the mode flags, -l and -g, and
\* with --log-only also of -x
RunClis ==
    {c \in {[DefaultCli EXCEPT !.pattern = p, !.names_only = n,
                               !.content_only = co, !.log_only = lo,
                               !.glob = g,
                               !.exclude = IF x THEN <<<<Ch.star>>>> ELSE <<>>,
                               !.log = l] :
              p \in RunPatterns, n \in BOOLEAN, co \in BOOLEAN, lo \in BOOLEAN,
              g \in RunGlobs, x \in BOOLEAN, l \in BOOLEAN} :
        c.exclude # <<>> => c.log_only}

Init ==
    /\ pc = "run"
    /\ cli \in RunClis
    /\ world \in {[entries |-> w, git_installed |-> g.git_installed,
                   toplevel |-> g.toplevel, children |-> g.children] :
                    w \in RunWalks, g \in GitWorlds}
    /\ Idle

\* run: the validation of the flag combination, and the choice of the mode
RunValidate ==
    /\ pc = "run"
    /\ IF Conflict(cli) # ""
       THEN /\ ret' = Err(Conflict(cli), <<>>)
            /\ pc' = "returned"
       ELSE /\ ret' = ret
            /\ pc' = IF Mode(cli) = "log_only" THEN "git_log"
                     ELSE IF Mode(cli) = "content_only" THEN "content"
                     ELSE "names"
    /\ UNCHANGED <<exit_code, cli, world, name_matches, content_matches,
                   log_matches, blocks, stdout, stderr>>

\* a mutant of RunSearchNames: the name matches are written as soon as they
\* are collected
RunSearchNamesStreaming ==
    /\ pc = "names"
    /\ LET r == main_search_names(cli, world)
       IN /\ stderr' = stderr \o r.diag
          /\ IF ~r.ok
             THEN /\ ret' = r
                  /\ pc' = "returned"
                  /\ UNCHANGED <<name_matches, blocks, stdout>>
             ELSE /\ ret' = ret
                  /\ name_matches' = r.value
                  /\ blocks' = IF Mode(cli) = "names_only"
                               THEN NameBlocks(r.value) ELSE blocks
                  /\ stdout' = stdout \o print_blocks(NameBlocks(r.value)).out
                  /\ pc' = IF Mode(cli) = "both" THEN "content"
                           ELSE IF cli.log THEN "git_log" ELSE "print"
    /\ UNCHANGED <<exit_code, cli, world, content_matches, log_matches>>

\* run: search_names(cli)?, and the blocks of names-only mode
RunSearchNames ==
    /\ pc = "names"
    /\ LET r == main_search_names(cli, world)
       IN /\ stderr' = stderr \o r.diag
          /\ IF ~r.ok
             THEN /\ ret' = r
                  /\ pc' = "returned"
                  /\ UNCHANGED <<name_matches, blocks>>
             ELSE /\ ret' = ret
                  /\ name_matches' = r.value
                  /\ blocks' = IF Mode(cli) = "names_only"
                               THEN NameBlocks(r.value) ELSE blocks
                  /\ pc' = IF Mode(cli) = "both" THEN "content"
                           ELSE IF cli.log THEN "git_log" ELSE "print"
    /\ UNCHANGED <<exit_code, cli, world, content_matches, log_matches, stdout>>

\* run: search_content(cli)?, and the blocks of content-only and both mode
RunSearchContent ==
    /\ pc = "content"
    /\ LET r == main_search_content(cli, world)
           names == {name_matches[i] : i \in 1..Len(name_matches)}
       IN /\ stderr' = stderr \o r.diag
          /\ IF ~r.ok
             THEN /\ ret' = r
                  /\ pc' = "returned"
                  /\ UNCHANGED <<content_matches, blocks>>
             ELSE /\ ret' = ret
                  /\ content_matches' = r.value
                  /\ blocks' =
                       IF Mode(cli) = "content_only"
                       THEN ContentBlocks(r.value, Ascending(DOMAIN r.value), 1)
                       ELSE BothBlocks(names, r.value, all_paths(names, r.value), 1)
                  /\ pc' = IF cli.log THEN "git_log" ELSE "print"
    /\ UNCHANGED <<exit_code, cli, world, name_matches, log_matches, stdout>>

\* run: blocks.extend(git_log_blocks(&search_git_log(cli)?))
RunSearchGitLog ==
    /\ pc = "git_log"
    /\ LET r == main_search_git_log(cli, world)
       IN /\ stderr' = stderr \o r.diag
          /\ IF ~r.ok
             THEN /\ ret' = r
                  /\ pc' = "returned"
                  /\ UNCHANGED <<log_matches, blocks>>
             ELSE /\ ret' = ret
                  /\ log_matches' = r.value
                  /\ blocks' = blocks \o main_git_log_blocks(r.value)
                  /\ pc' = "print"
    /\ UNCHANGED <<exit_code, cli, world, name_matches, content_matches, stdout>>

\* run: print_blocks(&mut blocks); Ok(())
RunPrintBlocks ==
    /\ pc = "print"
    /\ LET r == print_blocks(blocks)
       IN /\ blocks' = r.blocks
          /\ stdout' = stdout \o r.out
    /\ ret' = Ok("unit", <<>>)
    /\ pc' = "returned"
    /\ UNCHANGED <<exit_code, cli, world, name_matches, content_matches,
                   log_matches, stderr>>

\* a mutant of MainExit: any diagnostic of the run makes the exit code 1
MainExitOnDiagnostics ==
    /\ pc = "returned"
    /\ IF ret.ok
       THEN /\ exit_code' = IF stderr = <<>> THEN 0 ELSE 1
            /\ stderr' = stderr
       ELSE /\ exit_code' = 1
            /\ stderr' = stderr \o <<Diag("main.rs", "{err}", <<ret.value>>)>>
    /\ pc' = "exited"
    /\ UNCHANGED <<cli, world, name_matches, content_matches, log_matches,
                   blocks, stdout, ret>>

\* main: report the error of run and exit 1, or exit 0
MainExit ==
    /\ pc = "returned"
    /\ IF ret.ok
       THEN /\ exit_code' = 0
            /\ stderr' = stderr
       ELSE /\ exit_code' = 1
            /\ stderr' = stderr \o <<Diag("main.rs", "{err}", <<ret.value>>)>>
    /\ pc' = "exited"
    /\ UNCHANGED <<cli, world, name_matches, content_matches, log_matches,
                   blocks, stdout, ret>>

Next ==
    \/ RunValidate
    \/ RunSearchNames
    \/ RunSearchContent
    \/ RunSearchGitLog
    \/ RunPrintBlocks
    \/ MainExit

Spec == Init /\ [][Next]_vars

\* C7: in names-only mode no content search is performed: nothing is
\* collected from file contents, the report has no "(binary file matches)"
\* line and no content line, and every file block is the matching path alone.
C7_NamesOnlySkipsContent ==
    Mode(cli) = "names_only" /\ Conflict(cli) = "" =>
        /\ content_matches = <<>>
        /\ \A k \in 1..Len(stdout) :
               stdout[k].fmt \notin {"  (binary file matches)", "  {line_number}:{line}"}
        /\ \A i \in 1..Len(blocks) :
               ~IsLogBlock(blocks[i]) =>
                   Lines(blocks[i]) = <<Fmt("{}", <<Key(blocks[i])>>)>>
        /\ pc = "exited" /\ ret.ok =>
               \A i \in 1..Len(world.entries) :
                   LET e == world.entries[i]
                   IN e.kind = "file" /\ IsMatch(names_matcher(cli), e.path) =>
                          \E k \in 1..Len(stdout) : stdout[k] = Fmt("{}", <<e.path>>)

\* the pattern "." names t/z, whose content has "h" ahead of a NUL: its
\* path is printed alone, beside a log block
C7_Witness ==
    /\ pc = "exited"
    /\ Mode(cli) = "names_only"
    /\ cli.log
    /\ \E i \in 1..Len(world.entries) :
           world.entries[i].nul /\ world.entries[i].path = <<Ch.t, Ch.slash, Ch.z>>
    /\ stdout = <<Fmt("{repo} (git log):", <<RepoR>>),
                  Fmt("  {} {}", <<<<Ch.b>>, <<Ch.dot, Ch.sp, Ch.z>>>>),
                  Fmt("  {} {}", <<<<Ch.f>>, <<Ch.h>>>>),
                  Blank,
                  Fmt("{}", <<<<Ch.t, Ch.slash, Ch.z>>>>)>>

-----------------------------------------------------------------------------
(* SpecDiscover: discover_git_repos applied to small search roots *)

\* most child directories drawn below a search root
MaxChildren == 3

RepoLink == Root \o <<Ch.slash, Ch.w>>
RepoBad == Root \o <<Ch.slash, Ch.f>>
DirPlain == Root \o <<Ch.slash, Ch.h>>

\* the children read_dir can yield: the repository t/r, t/r-z that resolves
\* to t/r, t/w that resolves to the enclosing repository /w, t/f whose
\* canonicalize fails, and t/h, a directory without .git that resolves to t/r
ChildUniverse ==
    { Repo(RepoR, RepoR, "ok", <<>>),
      Repo(RepoRZ, RepoR, "ok", <<>>),
      Repo(RepoLink, RepoTop, "ok", <<>>),
      Repo(RepoBad, <<>>, "ok", <<>>),
      [Repo(DirPlain, RepoR, "ok", <<>>) EXCEPT !.has_git = FALSE] }

ChildLists ==
    {c \in UNION {[1..k -> ChildUniverse] : k \in 0..MaxChildren} :
        \A i, j \in 1..Len(c) : i # j => c[i].path # c[j].path}

\* what `git rev-parse --show-toplevel` answers: failure, /w, or a path
\* that canonicalize rejects
Toplevels ==
    { <<>>, <<Repo(RepoTop, RepoTop, "ok", <<>>)>>,
      <<Repo(RepoTop, <<>>, "ok", <<>>)>> }

InitDiscover ==
    /\ pc = "discover_git_repos"
    /\ cli = DefaultCli
    /\ world \in {[entries |-> <<>>, git_installed |-> g, toplevel |-> t,
                   children |-> c] :
                    g \in BOOLEAN, t \in Toplevels, c \in ChildLists}
    /\ Idle

CallDiscoverGitRepos ==
    /\ pc = "discover_git_repos"
    /\ ret' = discover_git_repos(world)
    /\ pc' = "discovered"
    /\ UNCHANGED <<exit_code, cli, world, name_matches, content_matches, log_matches,
                   blocks, stdout, stderr>>

NextDiscover == CallDiscoverGitRepos

SpecDiscover == InitDiscover /\ [][NextDiscover]_vars

\* the references to repositories in the order discovery meets them: the
\* enclosing repository when git answers, then the children with .git;
\* those whose canonical path cannot be had are left out
Candidates(w) ==
    SelectSeq((IF w.git_installed THEN w.toplevel ELSE <<>>) \o w.children,
              LAMBDA c : c.has_git /\ c.canonical # <<>>)

\* C12: the list discover_git_repos returns has no two entries with the same
\* canonical path; every canonical path met is represented by exactly one
\* entry, the first reference discovered with that canonical path.
C12_DiscoverDeduplicates ==
    pc = "discovered" =>
        LET cand == Candidates(world)
            firsts == SelectSeq([k \in 1..Len(cand) |-> [c |-> cand[k], k |-> k]],
                                LAMBDA x : \A j \in 1..(x.k - 1) :
                                    cand[j].canonical # x.c.canonical)
        IN /\ ret = [i \in 1..Len(firsts) |-> firsts[i].c.path]
           /\ \A i, j \in 1..Len(ret) :
                  i # j => RepoAt(world, ret[i]).canonical
                               # RepoAt(world, ret[j]).canonical
           /\ \A k \in 1..Len(cand) :
                  Cardinality({i \in 1..Len(ret) :
                      RepoAt(world, ret[i]).canonical = cand[k].canonical}) = 1

\* the root lies in /w, its child t/w resolves to /w, and t/r-z resolves to
\* the same path as the later child t/r: /w and t/r-z are returned
C12_Witness ==
    /\ pc = "discovered"
    /\ world.git_installed
    /\ world.toplevel = <<Repo(RepoTop, RepoTop, "ok", <<>>)>>
    /\ world.children = <<Repo(RepoLink, RepoTop, "ok", <<>>),
                          Repo(RepoRZ, RepoR, "ok", <<>>),
                          Repo(RepoR, RepoR, "ok", <<>>)>>
    /\ ret = <<RepoTop, RepoRZ>>

-----------------------------------------------------------------------------
(* Spec: the errors of a run *)

\* the request combines --log-only with a flag it excludes
LogOnlyConflict(c) ==
    c.log_only /\ (c.names_only \/ c.content_only \/ c.glob # <<>> \/ c.exclude # <<>>)

\* the flag of the request that an error message names beside --log-only
\* (-x is spelled --ignore on the command line)
NamedFlagSet(c, msg) ==
    \/ msg = "--log-only and --names-only are mutually exclusive" /\ c.names_only
    \/ msg = "--log-only and --content-only are mutually exclusive" /\ c.content_only
    \/ msg = "--log-only and --glob are mutually exclusive" /\ c.glob # <<>>
    \/ msg = "--log-only and --ignore are mutually exclusive" /\ c.exclude # <<>>

\* C13: a request that combines --log-only with --names-only,
\* --content-only, a glob or an exclude list is rejected: run returns an
\* error naming --log-only and a flag that the request does set, no
\* collector runs, nothing is printed, and the process exits 1.
C13_LogOnlyConflictRejected ==
    LogOnlyConflict(cli) =>
        /\ pc \in {"run", "returned", "exited"}
        /\ name_matches = <<>> /\ content_matches = <<>> /\ log_matches = <<>>
        /\ blocks = <<>> /\ stdout = <<>>
        /\ pc = "run" => stderr = <<>>
        /\ pc \in {"returned", "exited"} =>
               ~ret.ok /\ NamedFlagSet(cli, ret.value)
        /\ pc = "returned" => stderr = <<>>
        /\ pc = "exited" =>
               /\ exit_code = 1
               /\ stderr = <<Diag("main.rs", "{err}", <<ret.value>>)>>

\* --log-only with -x alone, over a tree and a repository that would match
C13_Witness ==
    /\ pc = "exited"
    /\ cli.log_only /\ cli.exclude # <<>>
    /\ ~cli.names_only /\ ~cli.content_only /\ cli.glob = <<>>
    /\ world.entries # <<>> /\ world.toplevel # <<>>
    /\ ret = Err("--log-only and --ignore are mutually exclusive", <<>>)
    /\ exit_code = 1
    /\ stdout = <<>>

\* C14: in log-only mode with the git binary absent the run ends with a
\* fatal reported error: run returns Err, the error is written to standard
\* error and the process exits 1, whatever the search root holds.
C14_LogOnlyGitAbsentFatal ==
    Mode(cli) = "log_only" /\ Conflict(cli) = "" /\ ~world.git_installed =>
        /\ pc \in {"returned", "exited"} => ~ret.ok
        /\ pc = "exited" =>
               /\ exit_code = 1
               /\ stderr = <<Diag("main.rs", "{err}", <<"git is not installed">>)>>

\* C14 restricted to the roots with a child repository, where a log query
\* is attempted
C14_FatalWhenRepoDiscovered ==
    Mode(cli) = "log_only" /\ Conflict(cli) = "" /\ ~world.git_installed
        /\ discover_git_repos(world) # <<>> =>
        /\ pc \in {"returned", "exited"} => ~ret.ok
        /\ pc = "exited" =>
               /\ exit_code = 1
               /\ stderr = <<Diag("main.rs", "{err}", <<"git is not installed">>)>>

\* the notice search_git_log writes when git cannot be spawned
GitNotFoundNotice == Diag("main.rs", "git not found, skipping log search", <<>>)

\* the children of the root that hold .git, each canonical path once
RECURSIVE ChildRepos(_, _)
ChildRepos(children, seen) ==
    IF children = <<>> THEN <<>>
    ELSE LET c == Head(children)
             new == c.has_git /\ c.canonical # <<>> /\ c.canonical \notin seen
         IN (IF new THEN <<c.path>> ELSE <<>>)
            \o ChildRepos(Tail(children), IF new THEN seen \cup {c.canonical} ELSE seen)

\* the pattern and every glob of the request compile, so that search_names
\* and search_content reach their walk
SearchStarts(c) == names_matcher(c).ok /\ build_walker(c, NoWorld).ok

\* C15: outside log-only mode a missing git binary is not fatal: discovery
\* still returns the child repositories, the log search succeeds with no
\* log match and writes its notice at most once, no error of the run is
\* about git, and the name and content results are printed.
C15_GitAbsentNotFatal ==
    Mode(cli) # "log_only" /\ ~world.git_installed =>
        /\ discover_git_repos(world) = ChildRepos(world.children, {})
        /\ log_matches = <<>>
        /\ Cardinality({k \in 1..Len(stderr) : stderr[k] = GitNotFoundNotice}) <= 1
        /\ pc \in {"returned", "exited"} /\ ~ret.ok => ret.value = "InvalidInput"
        /\ pc \in {"print", "returned", "exited"}
              /\ cli.log /\ discover_git_repos(world) # <<>> /\ SearchStarts(cli) =>
               Cardinality({k \in 1..Len(stderr) : stderr[k] = GitNotFoundNotice}) = 1
        /\ pc = "exited" /\ SearchStarts(cli) =>
               /\ ret.ok /\ exit_code = 0
               /\ Mode(cli) # "content_only" =>
                      name_matches = main_search_names(cli, world).value
               /\ Mode(cli) # "names_only" =>
                      content_matches = main_search_content(cli, world).value
               /\ \A i \in 1..Len(name_matches) :
                      \E k \in 1..Len(stdout) : stdout[k] = Fmt("{}", <<name_matches[i]>>)
               /\ \A path \in DOMAIN content_matches :
                      \E k \in 1..Len(stdout) : stdout[k] = Fmt("{}", <<path>>)
               /\ \A k \in 1..Len(stdout) : stdout[k].fmt # "{repo} (git log):"

\* both mode with -l, git missing, two child repositories: one notice, and
\* the block of t/h is printed
C15_Witness ==
    /\ pc = "exited"
    /\ Mode(cli) = "both" /\ cli.log
    /\ ~world.git_installed
    /\ discover_git_repos(world) = <<RepoRZ, RepoR>>
    /\ stderr = <<GitNotFoundNotice>>
    /\ stdout = <<Fmt("{}", <<<<Ch.t, Ch.slash, Ch.h>>>>),
                  Fmt("  (name match)", <<>>),
                  Fmt("  {line_number}:{line}", <<1, <<Ch.h>>>>)>>
    /\ exit_code = 0

-----------------------------------------------------------------------------
(* SpecGitLog: search_git_log applied to roots whose repositories fail *)

\* most child repositories drawn below a search root
MaxRepos == 3

\* how a log query can end
Statuses == {"ok", "nonzero", "ioerror"}

\* the child repositories drawn: t/r-z with two commits, t/r and t/w with
\* one, each ending its query in every way
LogRepoUniverse ==
    {Repo(RepoRZ, RepoRZ, st, <<CommitDot, CommitH>>) : st \in Statuses}
        \cup {Repo(RepoR, RepoR, st, <<CommitH>>) : st \in Statuses}
        \cup {Repo(RepoLink, RepoLink, st, <<CommitH>>) : st \in Statuses}

LogRepoLists ==
    {c \in UNION {[1..k -> LogRepoUniverse] : k \in 0..MaxRepos} :
        \A i, j \in 1..Len(c) : i # j => c[i].path # c[j].path}

LogToplevels ==
    {<<>>} \cup {<<Repo(RepoTop, RepoTop, st, <<CommitH>>)>> : st \in {"ok", "nonzero"}}

InitGitLog ==
    /\ pc = "search_git_log"
    /\ cli \in {[DefaultCli EXCEPT !.pattern = p, !.log_only = lo] :
                  p \in {<<Ch.h>>, <<Ch.dot>>}, lo \in BOOLEAN}
    /\ world \in {[entries |-> <<>>, git_installed |-> TRUE, toplevel |-> t,
                   children |-> c] : t \in LogToplevels, c \in LogRepoLists}
    /\ Idle

CallSearchGitLog ==
    /\ pc = "search_git_log"
    /\ LET r == search_git_log(cli, world)
       IN /\ ret' = r
          /\ stderr' = stderr \o r.diag
    /\ pc' = "git_log_done"
    /\ UNCHANGED <<exit_code, cli, world, name_matches, content_matches, log_matches,
                   blocks, stdout>>

CallMainSearchGitLog ==
    /\ pc = "search_git_log"
    /\ LET r == main_search_git_log(cli, world)
       IN /\ ret' = r
          /\ stderr' = stderr \o r.diag
    /\ pc' = "main_git_log_done"
    /\ UNCHANGED <<exit_code, cli, world, name_matches, content_matches, log_matches,
                   blocks, stdout>>

NextGitLog ==
    \/ CallSearchGitLog
    \/ CallMainSearchGitLog

SpecGitLog == InitGitLog /\ [][NextGitLog]_vars

\* the repositories of the root in discovery order
ReposInOrder(w) == w.toplevel \o w.children

\* the log matches a repository is due: one per commit whose subject the
\* pattern matches, oldest query line first
RECURSIVE DueMatches(_, _, _, _)
DueMatches(withDate, re, repo, commits) ==
    IF commits = <<>> THEN <<>>
    ELSE LET c == Head(commits)
             m == IF withDate
                  THEN [repo |-> repo, hash |-> c.hash, date |-> c.date,
                        message |-> c.subject]
                  ELSE [repo |-> repo, hash |-> c.hash, message |-> c.subject]
         IN (IF IsMatch(re, c.subject) THEN <<m>> ELSE <<>>)
            \o DueMatches(withDate, re, repo, Tail(commits))

\* the matches of the repositories whose query succeeded, in order
RECURSIVE DueOfAll(_, _, _)
DueOfAll(withDate, re, repos) ==
    IF repos = <<>> THEN <<>>
    ELSE (IF Head(repos).status = "ok"
          THEN DueMatches(withDate, re, Head(repos).path, Head(repos).commits)
          ELSE <<>>)
         \o DueOfAll(withDate, re, Tail(repos))

\* C16: a repository whose log query exits non-zero, or cannot be run for
\* a reason other than a missing binary, contributes no log match; the
\* queries of the others are run wherever the failing one stands, all their
\* matches are in the result, and search_git_log returns success.
C16_FailedQuerySkipped ==
    pc \in {"git_log_done", "main_git_log_done"} =>
        LET re == Compile(cli.pattern, FALSE)
            repos == ReposInOrder(world)
        IN /\ ret.ok
           /\ ret.value = DueOfAll(pc = "git_log_done", re, repos)
           /\ \A i \in 1..Len(repos) :
                  repos[i].status # "ok" =>
                      \A k \in 1..Len(ret.value) : ret.value[k].repo # repos[i].path

\* t/r-z exits non-zero and t/w cannot be run, ahead of t/r: the match of
\* t/r is the result
C16_Witness ==
    /\ pc = "git_log_done"
    /\ cli.pattern = <<Ch.h>>
    /\ world.toplevel = <<>>
    /\ world.children = <<Repo(RepoRZ, RepoRZ, "nonzero", <<CommitDot, CommitH>>),
                          Repo(RepoLink, RepoLink, "ioerror", <<CommitH>>),
                          Repo(RepoR, RepoR, "ok", <<CommitH>>)>>
    /\ ret.ok
    /\ ret.value = <<[repo |-> RepoR, hash |-> <<Ch.f>>, date |-> <<Ch.dash>>,
                      message |-> <<Ch.h>>]>>
    /\ stderr = <<Diag("git.rs", "git log in {repo_str}: {e}", <<RepoLink>>)>>

-----------------------------------------------------------------------------
(* Spec: the blocks of the file results *)

\* the file blocks of the run have been built
FileBlocksBuilt ==
    /\ Mode(cli) \in {"names_only", "content_only", "both"}
    /\ \/ pc \in {"git_log", "print"}
       \/ pc \in {"returned", "exited"} /\ ret.ok

\* the name matches that have no content entry
NameOnlyPaths ==
    {name_matches[i] : i \in 1..Len(name_matches)} \ DOMAIN content_matches

\* the blocks keyed by path p
BlocksOf(p) == {i \in 1..Len(blocks) : Key(blocks[i]) = p}

PathLine(p) == Fmt("{}", <<p>>)
NameMatchLine == Fmt("  (name match)", <<>>)

\* C17 as stated: a name match without a content entry is a block of exactly
\* one line, the path, in names-only mode and in both mode alike, and two
\* such matches next to each other are printed with no blank line between.
C17_NameOnlySingleLine ==
    FileBlocksBuilt /\ Mode(cli) \in {"names_only", "both"} =>
        /\ \A p \in NameOnlyPaths :
               /\ Cardinality(BlocksOf(p)) = 1
               /\ \A i \in BlocksOf(p) : Lines(blocks[i]) = <<PathLine(p)>>
        /\ pc = "exited" =>
               \A k \in 1..Len(stdout) :
                   k > 1 /\ k < Len(stdout) /\ stdout[k] = Blank =>
                       ~\E p, q \in NameOnlyPaths :
                           stdout[k - 1] = PathLine(p) /\ stdout[k + 1] = PathLine(q)

\* C17, amended: a name match without a content entry is one block keyed by
\* the path; in names-only mode its only line is the path and adjacent name
\* matches are printed with no blank line between; in both mode its lines
\* are the path and "  (name match)", so a blank line separates it from its
\* neighbours.
C17_NameOnlyBlocks ==
    FileBlocksBuilt /\ Mode(cli) \in {"names_only", "both"} =>
        /\ \A p \in NameOnlyPaths :
               /\ Cardinality(BlocksOf(p)) = 1
               /\ \A i \in BlocksOf(p) :
                      Lines(blocks[i]) = IF Mode(cli) = "names_only"
                                         THEN <<PathLine(p)>>
                                         ELSE <<PathLine(p), NameMatchLine>>
        /\ pc = "exited" =>
               \A k \in 1..Len(stdout) :
                   /\ Mode(cli) = "names_only" /\ k < Len(stdout)
                          /\ (\E p \in NameOnlyPaths : stdout[k] = PathLine(p)) =>
                          stdout[k + 1] # Blank
                             \/ (k + 2 <= Len(stdout)
                                    /\ stdout[k + 2].fmt = "{repo} (git log):")
                   /\ Mode(cli) = "both" /\ k < Len(stdout)
                          /\ (\E p \in NameOnlyPaths : stdout[k] = PathLine(p)) =>
                          /\ stdout[k + 1] = NameMatchLine
                          /\ k + 2 <= Len(stdout) => stdout[k + 2] = Blank

\* both mode over the empty files t/h- and t/hh: each is a name match
\* without content, printed with "(name match)" and a blank line between
C17_Witness ==
    /\ pc = "exited"
    /\ Mode(cli) = "both"
    /\ cli.pattern = <<Ch.h>>
    /\ NameOnlyPaths = {<<Ch.t, Ch.slash, Ch.h, Ch.dash>>, <<Ch.t, Ch.slash, Ch.h, Ch.h>>}
    /\ stdout = <<PathLine(<<Ch.t, Ch.slash, Ch.h, Ch.dash>>), NameMatchLine,
                  Blank,
                  PathLine(<<Ch.t, Ch.slash, Ch.h, Ch.h>>), NameMatchLine>>

\* the display line of one content entry
EntryLine(m) ==
    IF m.tag = "Line"
    THEN Fmt("  {line_number}:{line}", <<m.line_number, m.line>>)
    ELSE Fmt("  (binary file matches)", <<>>)

\* C18: in both mode every path with a content entry has one block keyed by
\* the path, whose lines are the path, then "  (name match)" exactly when
\* the path is a name match, then one line per content entry in the order
\* the matches were found: "  {line_number}:{text}" for a Line and
\* "  (binary file matches)" for a BinaryFile.
C18_ContentBlockLayout ==
    FileBlocksBuilt /\ Mode(cli) = "both" =>
        /\ content_matches = main_search_content(cli, world).value
        /\ \A p \in DOMAIN content_matches :
               LET found == content_matches[p]
                   named == \E i \in 1..Len(name_matches) : name_matches[i] = p
               IN /\ Cardinality(BlocksOf(p)) = 1
                  /\ \A i \in BlocksOf(p) :
                         Lines(blocks[i]) =
                             <<PathLine(p)>>
                                 \o (IF named THEN <<NameMatchLine>> ELSE <<>>)
                                 \o [k \in 1..Len(found) |-> EntryLine(found[k])]
                  /\ \A j, k \in 1..Len(found) :
                         j < k /\ found[k].tag = "Line" =>
                             found[j].tag = "Line"
                                 /\ found[j].line_number < found[k].line_number

\* the pattern "." over t/r/h, whose two lines match, and t/z, which has a
\* NUL after its matching line
C18_Witness ==
    /\ pc = "exited"
    /\ Mode(cli) = "both" /\ ~cli.log
    /\ cli.pattern = <<Ch.dot>>
    /\ stdout = <<PathLine(<<Ch.t, Ch.slash, Ch.r, Ch.slash, Ch.h>>), NameMatchLine,
                  Fmt("  {line_number}:{line}", <<1, <<Ch.dot>>>>),
                  Fmt("  {line_number}:{line}", <<2, <<Ch.h>>>>),
                  Blank,
                  PathLine(<<Ch.t, Ch.slash, Ch.z>>), NameMatchLine,
                  Fmt("  (binary file matches)", <<>>)>>

-----------------------------------------------------------------------------
(* SpecPrint: the blocks of the log matches *)

\* the log blocks among the blocks collected
LogBlocks == SelectSeq(blocks, IsLogBlock)

\* the positions in log_matches of the matches of repository r
MatchesOf(r) == {i \in 1..Len(log_matches) : log_matches[i].repo = r}

\* the display line of one log match
LogLine(m) == Fmt("  {} {} {}", <<m.hash, m.date, m.message>>)

-----------------------------------------------------------------------------
(* Spec: a run without matches *)

\* the collectors the mode of the request runs
RunsNames(c) == Mode(c) \in {"names_only", "both"}
RunsContent(c) == Mode(c) \in {"content_only", "both"}
RunsLog(c) == Mode(c) = "log_only" \/ c.log

\* every collector the run calls returns successfully with no match
NoMatchAnywhere ==
    /\ Conflict(cli) = ""
    /\ RunsNames(cli) =>
           main_search_names(cli, world).ok
               /\ main_search_names(cli, world).value = <<>>
    /\ RunsContent(cli) =>
           main_search_content(cli, world).ok
               /\ DOMAIN main_search_content(cli, world).value = {}
    /\ RunsLog(cli) =>
           main_search_git_log(cli, world).ok
               /\ main_search_git_log(cli, world).value = <<>>

\* C20: when no collector yields a match, nothing is written to standard
\* output, neither a header nor a blank line, and the run succeeds with
\* exit code 0, in every mode.
C20_NoMatchNoOutput ==
    NoMatchAnywhere =>
        /\ stdout = <<>>
        /\ blocks = <<>>
        /\ pc \in {"returned", "exited"} => ret.ok
        /\ pc = "exited" => exit_code = 0

\* --log-only with the pattern "h" in the repository /w, whose only commit
\* reads ". z"
C20_Witness ==
    /\ pc = "exited"
    /\ Mode(cli) = "log_only"
    /\ cli.pattern = <<Ch.h>>
    /\ world.git_installed
    /\ discover_git_repos(world) = <<RepoTop>>
    /\ world.entries # <<>>
    /\ NoMatchAnywhere
    /\ stdout = <<>>
    /\ exit_code = 0

-----------------------------------------------------------------------------
(* SpecPrint: the report as a function of the collected sets *)

\* the rearrangements of sequence s
Perms(s) ==
    {t \in [1..Len(s) -> {s[i] : i \in 1..Len(s)}] :
        \A i \in 1..Len(s) : \E j \in 1..Len(s) : t[j] = s[i]}

\* the file blocks among the blocks collected
FileBlocks == SelectSeq(blocks, LAMBDA b : ~IsLogBlock(b))

\* the log matches as another order of discovery returns them: the
\* repositories rearranged, the matches of each in the order of its query
LogArrivals ==
    {t \in Perms(log_matches) :
        \A r \in {log_matches[i].repo : i \in 1..Len(log_matches)} :
            OfRepo(t, r) = OfRepo(log_matches, r)}

\* C21: the report is a function of the sets collected: whatever the order
\* in which the file blocks were collected and the repositories were
\* discovered, print_blocks writes the same lines, and writes them again
\* when it is run on the same blocks.
C21_ReportDeterministic ==
    pc = "printed" =>
        \A fb \in Perms(FileBlocks), lm \in LogArrivals :
            /\ print_blocks(fb \o git_log_blocks(lm)).out = stdout
            /\ print_blocks(fb \o git_log_blocks(lm)).blocks = blocks
            /\ print_blocks(blocks).out = stdout

\* the name matches t/r/DEL and t/h beside log matches of t/r and /w, t/r
\* discovered first: /w is printed first, and the file t/r/DEL, whose path
\* equals the key of t/r's log block, ahead of that block
C21_Witness ==
    /\ pc = "printed"
    /\ log_matches = <<Commit(RepoR, Ch.f), Commit(RepoTop, Ch.f)>>
    /\ stdout = <<Fmt("{repo} (git log):", <<RepoTop>>),
                  Fmt("  {} {} {}", <<<<Ch.f>>, <<Ch.dash>>, <<Ch.h>>>>),
                  Blank,
                  Fmt("{}", <<Root \o <<Ch.slash, Ch.h>>>>),
                  Fmt("{}", <<RepoR \o <<Ch.slash, Ch.del>>>>),
                  Blank,
                  Fmt("{repo} (git log):", <<RepoR>>),
                  Fmt("  {} {} {}", <<<<Ch.f>>, <<Ch.dash>>, <<Ch.h>>>>)>>

-----------------------------------------------------------------------------
(* SpecWalk: build_walker applied to include and exclude globs *)

\* most -g options, and most -x options, of a request
MaxGlobs == 2

Dir(name) ==
    [kind |-> "dir", path |-> <<Ch.t, Ch.slash>> \o name, lines |-> <<>>,
     nul |-> FALSE, unreadable |-> FALSE]

\* the tree walked: t/h, t/hh, t/z, and the directory t/r with t/r/h, t/r/z
WalkTree ==
    << File(<<Ch.h>>, <<>>, FALSE), File(<<Ch.h, Ch.h>>, <<>>, FALSE),
       File(<<Ch.z>>, <<>>, FALSE), Dir(<<Ch.r>>),
       File(<<Ch.r, Ch.slash, Ch.h>>, <<>>, FALSE),
       File(<<Ch.r, Ch.slash, Ch.z>>, <<>>, FALSE) >>

\* the globs drawn: h*, *z, r, and the glob "[" that does not compile
GlobUniverse ==
    { <<Ch.h, Ch.star>>, <<Ch.star, Ch.z>>, <<Ch.r>>, <<Ch.lbracket>> }

GlobLists == UNION {[1..k -> GlobUniverse] : k \in 0..MaxGlobs}

InitWalk ==
    /\ pc = "build_walker"
    /\ cli \in {[DefaultCli EXCEPT !.glob = g, !.exclude = x] :
                  g \in GlobLists, x \in GlobLists}
    /\ world = [NoWorld EXCEPT !.entries = WalkTree]
    /\ Idle

CallBuildWalker ==
    /\ pc = "build_walker"
    /\ ret' = build_walker(cli, world)
    /\ pc' = "walker_built"
    /\ UNCHANGED <<exit_code, cli, world, name_matches, content_matches, log_matches,
                   blocks, stdout, stderr>>

NextWalk == CallBuildWalker

SpecWalk == InitWalk /\ [][NextWalk]_vars

\* some glob of the list matches the path
AnyMatches(globs, path) == \E i \in 1..Len(globs) : GlobMatches(globs[i], path)

\* some exclude pattern matches the path or a directory above it
Excluded(c, path) ==
    \/ AnyMatches(c.exclude, path)
    \/ \E d \in Ancestors(path) : AnyMatches(c.exclude, d)

\* the paths the walk yields
Visited == {ret.value[i].path : i \in 1..Len(ret.value)}

-----------------------------------------------------------------------------
(* C22: the exit code, and the errors that do not change it *)

\* a diagnostic line about the path is on stderr (the line main writes for
\* the error of run, the last one, names no path)
Reported(path) ==
    \E k \in 1..Len(stderr) :
        /\ ~(pc = "exited" /\ ~ret.ok /\ k = Len(stderr))
        /\ stderr[k].args = <<path>>

\* the entries the collectors of the request walk over
WalkedEntries ==
    LET walk == build_walker(cli, world)
    IN {walk.value[i] : i \in 1..Len(walk.value)}

\* the run reaches its log queries: the request is valid, the collectors
\* ahead of the log collector succeed, and git is there
QueriesRun ==
    /\ Conflict(cli) = ""
    /\ RunsLog(cli)
    /\ Mode(cli) = "log_only" \/ SearchStarts(cli)
    /\ world.git_installed

\* the discovered repositories whose query has the status
ReposWith(status) ==
    {discover_git_repos(world)[i] : i \in 1..Len(discover_git_repos(world))}
        \cap {path \in {RepoTop, RepoR, RepoRZ} :
                  \/ world.toplevel # <<>> /\ world.toplevel[1].path = path
                        /\ world.toplevel[1].status = status
                  \/ \E i \in 1..Len(world.children) :
                        world.children[i].path = path /\ world.children[i].status = status}

\* the exit code is 1 exactly when run returned an error, which is then an
\* invalid flag combination, a pattern or glob that does not compile, or
\* git missing in log-only mode; it is 0 otherwise
ExitFollowsRun ==
    pc = "exited" =>
        /\ exit_code \in {0, 1}
        /\ exit_code = 1 <=> ~ret.ok
        /\ ~ret.ok =>
              \/ Conflict(cli) # "" /\ ret.value = Conflict(cli)
              \/ ~SearchStarts(cli) /\ ret.value = "InvalidInput"
              \/ ~world.git_installed /\ Mode(cli) = "log_only"
                    /\ ret.value = "git is not installed"

\* an entry the walk fails on, or a file that cannot be read, is reported
\* and the exit code stays 0
EntryErrorsLeaveZero ==
    pc = "exited" /\ Conflict(cli) = "" /\ Mode(cli) # "log_only" /\ SearchStarts(cli) =>
        /\ exit_code = 0
        /\ \A e \in WalkedEntries :
              /\ e.kind = "error" => Reported(e.path)
              /\ e.kind = "file" /\ e.unreadable /\ RunsContent(cli) => Reported(e.path)

\* C22 (as stated): the process exits with 1 exactly when run returns an
\* error and with 0 otherwise; traversal errors, read errors and failed log
\* queries of single repositories are all reported and leave the exit code 0.
C22_FailuresReportedExitZero ==
    /\ ExitFollowsRun
    /\ EntryErrorsLeaveZero
    /\ pc = "exited" /\ QueriesRun =>
          /\ exit_code = 0
          /\ \A path \in ReposWith("ioerror") \cup ReposWith("nonzero") : Reported(path)

\* C22 (amended): the process exits with 1 exactly when run returns an
\* error and with 0 otherwise; traversal errors, read errors and log queries
\* that could not be run are reported, a log query that exits non-zero is
\* skipped without a report, and all of them leave the exit code 0.
C22_ExitCodeFollowsRun ==
    /\ ExitFollowsRun
    /\ EntryErrorsLeaveZero
    /\ pc = "exited" /\ QueriesRun =>
          /\ exit_code = 0
          /\ \A path \in ReposWith("ioerror") : Reported(path)
          /\ \A path \in ReposWith("nonzero") : ~Reported(path)

\* both mode with -l over the unreadable t/hh and a failed entry, t/r-z's
\* query exits non-zero: two reports, none of t/r-z, exit code 0
C22_Witness ==
    /\ pc = "exited"
    /\ Mode(cli) = "both" /\ cli.log /\ cli.pattern = <<Ch.h>>
    /\ ReposWith("nonzero") = {RepoRZ}
    /\ Len(world.entries) = 2
    /\ Reported(<<Ch.t, Ch.slash, Ch.w>>)
    /\ Reported(<<Ch.t, Ch.slash, Ch.h, Ch.h>>)
    /\ ~Reported(RepoRZ)
    /\ ret.ok /\ exit_code = 0

-----------------------------------------------------------------------------
(* C23: the log search outside log-only mode *)

\* the header line of a log block is on stdout
LogBlockPrinted(repo) ==
    \E k \in 1..Len(stdout) : stdout[k] = Fmt("{repo} (git log):", <<repo>>)

\* C23: in names-only, content-only and both mode a successful run has
\* run the log collector and printed a log block for every repository with
\* a log match exactly when wants_log holds for the request; without it
\* the run holds no log match and prints no log block.
C23_LogOnByDefault ==
    pc = "exited" /\ ret.ok /\ Mode(cli) # "log_only" =>
        LET due == main_search_git_log(cli, world).value
        IN IF wants_log(cli)
           THEN /\ log_matches = due
                /\ \A i \in 1..Len(due) : LogBlockPrinted(due[i].repo)
           ELSE /\ log_matches = <<>>
                /\ \A k \in 1..Len(stdout) : stdout[k].fmt # "{repo} (git log):"

-----------------------------------------------------------------------------
(* C25: nothing is written before the collectors are done *)

\* every collector of the request's mode has returned its result
CollectorsDone ==
    /\ Conflict(cli) = ""
    /\ RunsNames(cli) =>
          /\ main_search_names(cli, world).ok
          /\ name_matches = main_search_names(cli, world).value
    /\ RunsContent(cli) =>
          /\ main_search_content(cli, world).ok
          /\ content_matches = main_search_content(cli, world).value
    /\ RunsLog(cli) =>
          /\ main_search_git_log(cli, world).ok
          /\ log_matches = main_search_git_log(cli, world).value

\* C25: stdout is written to only by a step that starts after every
\* collector active in the mode has completed, and whenever run has
\* returned an error stdout is empty.
C25_OutputNeverPartial ==
    /\ [][stdout' # stdout => pc = "print" /\ CollectorsDone]_vars
    /\ [](pc \in {"returned", "exited"} /\ ~ret.ok => stdout = <<>>)

\* both mode with -l: the three collectors found something, and the report
\* has been written
C25_Witness ==
    /\ pc = "returned" /\ ret.ok
    /\ Mode(cli) = "both" /\ cli.log
    /\ name_matches # <<>>
    /\ DOMAIN content_matches # {}
    /\ log_matches # <<>>
    /\ stdout # <<>>

-----------------------------------------------------------------------------
(* C26: an entry that fails is skipped, and only that entry *)

\* the entry of the walk fails in search_names: the walk yields an error
FailsInNames(e) == e.kind = "error"

\* the entry fails in search_content: as above, or the file cannot be read
FailsInContent(e) == e.kind = "error" \/ (e.kind = "file" /\ e.unreadable)

\* the world without the entries that fail in search_names
WithoutNameFailures ==
    [world EXCEPT !.entries = SelectSeq(@, LAMBDA e : ~FailsInNames(e))]

\* the world without the entries that fail in search_content
WithoutContentFailures ==
    [world EXCEPT !.entries = SelectSeq(@, LAMBDA e : ~FailsInContent(e))]

\* a diagnostic line of the collector about the path
SkipReported(path) == \E k \in 1..Len(stderr) : stderr[k].args = <<path>>

\* C26: search_names and search_content report an entry the walk fails on,
\* and search_content a file it cannot read, and skip only that entry: the
\* collector returns success whenever the pattern compiles, its result is
\* the one it returns for the same walk without the failing entries, and no
\* directory is among the name matches or has a content entry.
C26_FailingEntrySkipped ==
    /\ pc = "names_done" =>
          /\ ret.ok <=> SearchStarts(cli)
          /\ ret.ok =>
                /\ \A i \in 1..Len(world.entries) :
                       FailsInNames(world.entries[i]) =>
                           SkipReported(world.entries[i].path)
                /\ name_matches = search_names(cli, WithoutNameFailures).value
                /\ \A i \in 1..Len(world.entries) :
                       world.entries[i].kind = "dir" =>
                           \A k \in 1..Len(name_matches) :
                               name_matches[k] # world.entries[i].path
    /\ pc \in {"content_done", "main_content_done"} =>
          /\ ret.ok <=> SearchStarts(cli)
          /\ ret.ok =>
                /\ \A i \in 1..Len(world.entries) :
                       FailsInContent(world.entries[i]) =>
                           SkipReported(world.entries[i].path)
                /\ content_matches =
                       IF pc = "content_done"
                       THEN search_content(cli, WithoutContentFailures).value
                       ELSE main_search_content(cli, WithoutContentFailures).value
                /\ \A i \in 1..Len(world.entries) :
                       world.entries[i].kind \in {"dir", "error"}
                          \/ world.entries[i].unreadable =>
                           world.entries[i].path \notin DOMAIN content_matches

\* search_names over an entry the walk fails on followed by t/h: the failure
\* is reported and t/h is matched
C26_Witness ==
    /\ pc = "names_done" /\ ret.ok
    /\ Len(world.entries) = 2
    /\ world.entries[1].kind = "error"
    /\ SkipReported(world.entries[1].path)
    /\ name_matches = <<<<Ch.t, Ch.slash, Ch.h>>>>

-----------------------------------------------------------------------------
(* SpecLogCase: search_git_log under the case flags *)

CommitUpper == [hash |-> <<Ch.b>>, date |-> <<Ch.dash>>, subject |-> <<Ch.H>>]

\* the requests drawn: the patterns h, H and ".", under every combination
\* of -i, --case-sensitive, -S, -F and -w
LogCaseClis ==
    {[DefaultCli EXCEPT !.pattern = p, !.ignore_case = ic, !.case_sensitive = cs,
                        !.smart_case = sc, !.fixed_strings = fx,
                        !.word_regexp = wr, !.log_only = TRUE] :
        p \in {<<Ch.h>>, <<Ch.H>>, <<Ch.dot>>}, ic \in BOOLEAN, cs \in BOOLEAN,
        sc \in BOOLEAN, fx \in BOOLEAN, wr \in BOOLEAN}

\* the roots drawn: t/r alone, and t/r-z beside t/r, with subjects in
\* both cases
LogCaseWorlds ==
    { [NoWorld EXCEPT !.children = <<Repo(RepoR, RepoR, "ok", <<CommitH, CommitUpper>>)>>],
      [NoWorld EXCEPT !.children = <<Repo(RepoRZ, RepoRZ, "ok", <<CommitUpper, CommitDot>>),
                                     Repo(RepoR, RepoR, "ok", <<CommitH>>)>>] }

InitLogCase ==
    /\ pc = "search_git_log"
    /\ cli \in LogCaseClis
    /\ world \in LogCaseWorlds
    /\ Idle

NextLogCase == CallSearchGitLog

SpecLogCase == InitLogCase /\ [][NextLogCase]_vars

\* C27: search_git_log gives every query the case-insensitive option
\* exactly when the resolved case policy of the request is insensitive, and
\* the pattern the name and content collectors compile; so its matches are
\* the commits whose subject matches that pattern under that policy.
C27_LogQueryFollowsPolicy ==
    pc = "git_log_done" =>
        /\ git_log_args(cli).ignore_case = is_case_insensitive(cli)
        /\ git_log_args(cli).grep = prepare_regex_pattern(cli)
        /\ ret.ok
        /\ ret.value = DueOfAll(TRUE, Compile(prepare_regex_pattern(cli),
                                              is_case_insensitive(cli)),
                                ReposInOrder(world))

-----------------------------------------------------------------------------
(* SpecParse: the output lines of a log query, parsed *)

\* longest output line drawn
MaxLineLen == 4
\* most output lines drawn
MaxLogLines == 2

\* the lines drawn: every text of spaces and "h"
OutputLines == UNION {[1..n -> {Ch.sp, Ch.h}] : n \in 0..MaxLineLen}

InitParse ==
    /\ pc = "parse_log"
    /\ cli = DefaultCli
    /\ world \in {[entries |-> <<>>, git_installed |-> TRUE, toplevel |-> <<>>,
                    children |-> <<>>, query_output |-> ls] :
                     ls \in UNION {[1..k -> OutputLines] : k \in 0..MaxLogLines}}
    /\ Idle

\* search_git_log: the loop over stdout.lines() of one repository
CallParseLog ==
    /\ pc = "parse_log"
    /\ log_matches' = ParseLog("git.rs", RepoR, world.query_output)
    /\ pc' = "log_parsed"
    /\ UNCHANGED <<exit_code, cli, world, name_matches, content_matches, blocks,
                   stdout, stderr, ret>>

NextParse == CallParseLog

SpecParse == InitParse /\ [][NextParse]_vars

\* number of spaces of the text
Spaces(s) == Cardinality({i \in 1..Len(s) : s[i] = Ch.sp})

\* the output lines that hold two spaces or more
TwoSpaced == {i \in 1..Len(world.query_output) : Spaces(world.query_output[i]) >= 2}

\* the k-th of them
NthTwoSpaced(k) == CHOOSE i \in TwoSpaced : Cardinality({j \in TwoSpaced : j <= i}) = k

\* C28: the log matches are, in the order of the lines, one for every
\* output line with two spaces or more and none for any other line; the
\* hash and the date hold no space, and hash, space, date, space, message
\* spell the line, so that the message is the whole remainder.
C28_LogLineParsed ==
    pc = "log_parsed" =>
        /\ Len(log_matches) = Cardinality(TwoSpaced)
        /\ \A k \in 1..Len(log_matches) :
               LET m == log_matches[k]
               IN /\ m.repo = RepoR
                  /\ Spaces(m.hash) = 0
                  /\ Spaces(m.date) = 0
                  /\ m.hash \o <<Ch.sp>> \o m.date \o <<Ch.sp>> \o m.message
                        = world.query_output[NthTwoSpaced(k)]

\* the lines "h h" and " h  ": the first yields nothing, the second an
\* empty hash, the date "h" and the message " "
C28_Witness ==
    /\ pc = "log_parsed"
    /\ world.query_output = << <<Ch.h, Ch.sp, Ch.h>>, <<Ch.sp, Ch.h, Ch.sp, Ch.sp>> >>
    /\ log_matches = <<[repo |-> RepoR, hash |-> <<>>, date |-> <<Ch.h>>,
                        message |-> <<Ch.sp>>]>>

-----------------------------------------------------------------------------
(* C29: both mode, one file block per path *)

\* the blocks of files: those whose first line is a path
FileBlockIndexes ==
    {i \in 1..Len(blocks) : Lines(blocks[i]) # <<>> /\ Lines(blocks[i])[1].fmt = "{}"}

\* the paths with a name match or a content entry
UnionPaths == {name_matches[i] : i \in 1..Len(name_matches)} \cup DOMAIN content_matches

\* C29: in both mode every path that is a name match or has a content entry
\* has exactly one file block and is printed once, also when it is both,
\* and every file block is the block of such a path.
C29_OneBlockPerPath ==
    FileBlocksBuilt /\ Mode(cli) = "both" =>
        /\ \A p \in UnionPaths :
               /\ Cardinality(BlocksOf(p) \cap FileBlockIndexes) = 1
               /\ \A i \in BlocksOf(p) \cap FileBlockIndexes :
                      Lines(blocks[i])[1] = PathLine(p)
        /\ \A i \in FileBlockIndexes : Key(blocks[i]) \in UnionPaths
        /\ pc = "exited" =>
               /\ \A p \in UnionPaths :
                      Cardinality({k \in 1..Len(stdout) : stdout[k] = PathLine(p)}) = 1
               /\ \A k \in 1..Len(stdout) :
                      stdout[k].fmt = "{}" => \E p \in UnionPaths : stdout[k] = PathLine(p)

\* both mode over t/h, a name match with a matching line, and t/z, a content
\* match only: two file blocks, t/h printed once
C29_Witness ==
    /\ pc = "exited" /\ ret.ok
    /\ Mode(cli) = "both" /\ cli.pattern = <<Ch.h>>
    /\ name_matches = <<<<Ch.t, Ch.slash, Ch.h>>>>
    /\ DOMAIN content_matches = {<<Ch.t, Ch.slash, Ch.h>>, <<Ch.t, Ch.slash, Ch.z>>}
    /\ Cardinality(FileBlockIndexes) = 2
    /\ Cardinality({k \in 1..Len(stdout) : stdout[k] = PathLine(<<Ch.t, Ch.slash, Ch.h>>)}) = 1

-----------------------------------------------------------------------------
(* C30: one mode per run *)

\* number of mode flags the request sets
ModeFlags(c) ==
    (IF c.names_only THEN 1 ELSE 0) + (IF c.content_only THEN 1 ELSE 0)
        + (IF c.log_only THEN 1 ELSE 0)

\* the name collector is of the request's mode: names-only, also with
\* --content-only beside it, or both
NamesDue(c) == ~c.log_only /\ (c.names_only \/ ~c.content_only)

\* the content collector is of the request's mode: content-only or both
ContentDue(c) == ~c.log_only /\ ~c.names_only

\* the log collector is of the request's mode: log-only, or -l
LogDue(c) == c.log_only \/ c.log

\* C30 (as stated): a request that sets two mode flags at once does not
\* pass validation: run returns an error and nothing is collected or
\* written; and a run that passed validation has the results of the
\* collectors of one mode only.
C30_TwoModeFlagsRejected ==
    /\ pc \in {"returned", "exited"} /\ ModeFlags(cli) >= 2 =>
          /\ ~ret.ok
          /\ name_matches = <<>> /\ content_matches = <<>> /\ log_matches = <<>>
          /\ stdout = <<>>
    /\ ~NamesDue(cli) => name_matches = <<>>
    /\ ~ContentDue(cli) => content_matches = <<>>
    /\ ~LogDue(cli) => log_matches = <<>>

\* C30 (amended): --log-only with --names-only or --content-only does not
\* pass validation and no collector is run; --names-only with
\* --content-only passes validation and is run in names-only mode; and a run
\* that passed validation enters the collectors of exactly one mode, all of
\* them before it prints.
C30_OneModePerRun ==
    /\ [](cli.log_only /\ (cli.names_only \/ cli.content_only) =>
              /\ pc \in {"run", "returned", "exited"}
              /\ (pc # "run" => (~ret.ok /\ stdout = <<>>)))
    /\ [](cli.names_only /\ cli.content_only /\ ~cli.log_only =>
              /\ pc # "content"
              /\ content_matches = <<>>
              /\ (pc = "exited" /\ SearchStarts(cli) =>
                     (ret.ok /\ name_matches = main_search_names(cli, world).value)))
    /\ [][/\ (pc' = "names" => NamesDue(cli))
           /\ (pc' = "content" => ContentDue(cli))
           /\ (pc' = "git_log" => LogDue(cli))
           /\ (pc' = "print" =>
                 /\ (NamesDue(cli) =>
                        name_matches' = main_search_names(cli, world).value)
                 /\ (ContentDue(cli) =>
                        content_matches' = main_search_content(cli, world).value)
                 /\ (LogDue(cli) =>
                        log_matches' = main_search_git_log(cli, world).value))]_vars

\* -n -c over t/h and t/z, whose content matches: the request passes
\* validation, t/h is reported and no content is collected
C30_Witness ==
    /\ pc = "exited" /\ ret.ok
    /\ cli.names_only /\ cli.content_only /\ ~cli.log_only
    /\ cli.pattern = <<Ch.h>>
    /\ Len(world.entries) = 2
    /\ \E i \in 1..2 : world.entries[i].path = <<Ch.t, Ch.slash, Ch.z>>
    /\ name_matches = <<<<Ch.t, Ch.slash, Ch.h>>>>
    /\ content_matches = <<>>
    /\ \E k \in 1..Len(stdout) : stdout[k] = PathLine(<<Ch.t, Ch.slash, Ch.h>>)

=============================================================================
